---- MODULE Spec2Model ----
(***************************************************************************)
(* The shelf resolver of picard-plugin-shelves.                            *)
(*                                                                         *)
(* The repository holds two ShelfManager classes: the instance-based one   *)
(* of the package module (src/shelves/__init__.py) and the classmethod     *)
(* singleton of src/shelves/manager.py, the one the processors and the     *)
(* tests import.  The variable module says which of the two the host       *)
(* talks to; the handlers of both are translated statement by statement.   *)
(***************************************************************************)
EXTENDS Integers, Sequences, FiniteSets, TLC

\* ------------------------------------------------------------------ bounds
\* Votes applied (counter increments) over all albums.
MaxVotes == 3
\* Calls the threads of the threaded specification make, all together.
MaxCalls == 2

Albums == {"A1"}
Shelves == {"Standard", "Incoming"}
\* Shelf arguments a caller may pass: a shelf name, or an empty or blank string.
ShelfArgs == Shelves \cup {"", " "}
Weights == {1, 2}
Modules == {"pkg", "mgr"}

\* --------------------------------------------------------------- constants
None == "None"
SHELF_SOURCE_MANUAL == "manual"
SHELF_SOURCE_VOTES == "votes"
SHELF_SOURCE_FALLBACK == "fallback"
\* float("inf"), the weight of the vote a manual set registers.
Inf == 1000

\* Python's truth value of a shelf argument / of an Optional[str].
Truthy(s) == s # None /\ s # ""
\* not shelf or not shelf.strip()
IsBlank(s) == s = None \/ s = "" \/ s = " "

\* float addition on the weights that occur: inf absorbs every finite value.
FAdd(x, y) == IF x = Inf \/ y = Inf THEN Inf ELSE x + y

\* ------------------------------------------------------------ dict helpers
Get(d, k, default) == IF k \in DOMAIN d THEN d[k] ELSE default
Put(d, k, v) == [x \in (DOMAIN d) \cup {k} |-> IF x = k THEN v ELSE d[x]]
Pop(d, k) == [x \in (DOMAIN d) \ {k} |-> d[x]]
EmptyDict == [x \in {} |-> None]

\* An insertion-ordered dict of numbers is a sequence of <<key, number>>.
HasKey(items, k) == \E i \in 1..Len(items) : items[i][1] = k
ValueOf(items, k) ==
  IF HasKey(items, k)
  THEN items[CHOOSE i \in 1..Len(items) : items[i][1] = k][2]
  ELSE 0
\* max(items, key=value) and most_common(1): the first item no later item
\* exceeds (Python's max keeps the first of equal maxima).
FirstMaxKey(items) ==
  LET i == CHOOSE i \in 1..Len(items) :
             /\ \A j \in 1..Len(items) : items[j][2] <= items[i][2]
             /\ \A j \in 1..(i - 1) : items[j][2] < items[i][2]
  IN items[i][1]

\* counter[key] += 1
Incr(items, k) ==
  IF HasKey(items, k)
  THEN [i \in 1..Len(items) |->
          IF items[i][1] = k THEN <<k, items[i][2] + 1>> ELSE items[i]]
  ELSE Append(items, <<k, 1>>)

\* agg[shelf] = agg.get(shelf, 0.0) + float(weight)
AggAdd(agg, k, w) ==
  IF HasKey(agg, k)
  THEN [i \in 1..Len(agg) |->
          IF agg[i][1] = k THEN <<k, FAdd(agg[i][2], w)>> ELSE agg[i]]
  ELSE Append(agg, <<k, FAdd(0, w)>>)

RECURSIVE Aggregate(_, _)
Aggregate(votes, agg) ==
  IF votes = <<>> THEN agg
  ELSE Aggregate(Tail(votes), AggAdd(agg, Head(votes)[1], Head(votes)[2]))

\* ShelfManager._winner: the shelf of the largest summed weight, None
\* without votes.
_winner(votes) ==
  IF votes = <<>> THEN None ELSE FirstMaxKey(Aggregate(votes, <<>>))

\* ------------------------------------------------------------------- values
\* One album's entry of the state map; a missing key reads as None / False.
EmptyState == [shelf |-> None, source |-> None, locked |-> FALSE]
\* One album's entry of _shelf_votes: a Counter; in manager.py the same map
\* is also written as the weighted-vote store, which leaves the keys
\* shelf_name, weight and reason in the Counter (junk) or a list in its place.
NewCounter == [kind |-> "Counter", items |-> <<>>, junk |-> FALSE]
NewList == [kind |-> "list", items |-> <<>>, junk |-> FALSE]
NoLog == [kind |-> "none", album |-> None, votes |-> <<>>, winner |-> None]
\* self.log_data = namedtuple(...): the class itself, which is truthy.
NamedTupleClass ==
  [kind |-> "class", album |-> None, votes |-> <<>>, winner |-> None]
Returned(shelf, source) == [exc |-> None, shelf |-> shelf, source |-> source]
Raised(e) == [exc |-> e, shelf |-> None, source |-> None]

\* A heap h is the resolver's data: st the state map (_STATE of the package,
\* _shelf_state of manager.py), vl the weighted vote lists (_VOTES), sv the
\* occurrence counters (_shelf_votes), sba the fallback winners
\* (_shelves_by_album), ld manager.py's instance attribute log_data.
\* A handler maps a heap and its arguments to
\* [h: the heap after the call, ret: what it returned or raised,
\*  log: the warning it logged].
Outcome(h, ret, log) == [h |-> h, ret |-> ret, log |-> log]
Conflict(a, items, winner) ==
  [kind |-> "tuple", album |-> a, votes |-> items, winner |-> winner]
NotFound(a) == [kind |-> "notfound", album |-> a, votes |-> <<>>, winner |-> None]

\* ------------------------------------------- src/shelves/__init__.py (pkg)
\* The critical section of vote_for_shelf: count, winner, conflict data.
pkg_vote_locked(h, a, s) ==
  LET c0 == IF a \in DOMAIN h.sv THEN h.sv[a] ELSE NewCounter
      c1 == [c0 EXCEPT !.items = Incr(c0.items, s)]
      winner == FirstMaxKey(c1.items)
      log_data == IF Len(c1.items) > 1
                  THEN Conflict(a, c1.items, winner) ELSE NoLog
  IN  [h |-> [h EXCEPT !.sv = Put(h.sv, a, c1), !.sba = Put(h.sba, a, winner)],
       log_data |-> log_data]

\* _VOTES.setdefault(album_id, []).append((shelf, float(weight), reason))
pkg_vote_append(h, a, s, w, reason) ==
  [h EXCEPT !.vl = Put(h.vl, a, Append(Get(h.vl, a, <<>>), <<s, w, reason>>))]

\* A vote_for_shelf that tests "not shelf" only, without shelf.strip().
pkg_vote_for_shelf_nostrip(h, a, s, w, reason) ==
  IF s = None \/ s = "" THEN Outcome(h, Returned(None, None), NoLog)
  ELSE LET r == pkg_vote_locked(h, a, s)
       IN  Outcome(pkg_vote_append(r.h, a, s, w, reason),
                   Returned(None, None), r.log_data)

pkg_vote_for_shelf(h, a, s, w, reason) ==
  IF IsBlank(s) THEN Outcome(h, Returned(None, None), NoLog)
  ELSE LET r == pkg_vote_locked(h, a, s)
       IN  Outcome(pkg_vote_append(r.h, a, s, w, reason),
                   Returned(None, None), r.log_data)

\* st = _STATE.setdefault(album_id, {})
SetDefaultState(st, a) == IF a \in DOMAIN st THEN st ELSE Put(st, a, EmptyState)
\* lock = (source == MANUAL) if lock is None, then bool(lock)
LockValue(source, lk) ==
  IF lk = None THEN source = SHELF_SOURCE_MANUAL ELSE lk = "True"
\* A resolver without the rejection: every write goes through.
RejectedNever(entry, source) == FALSE
\* Manually locked => can only be overwritten manually
Rejected(entry, source) == entry.locked /\ source # SHELF_SOURCE_MANUAL

\* A set_album_shelf whose rejection keeps the shelf and the source but
\* stores the lock flag it computed.
pkg_set_album_shelf_relock(h, a, shelf, source, lk) ==
  LET st1 == SetDefaultState(h.st, a)
      h1 == [h EXCEPT !.st = Put(st1, a,
               [st1[a] EXCEPT !.locked = LockValue(source, lk)])]
  IN  IF Rejected(st1[a], source)
      THEN Outcome(h1, Returned(st1[a].shelf, None), NoLog)
      ELSE LET h2 == [h EXCEPT !.st = Put(st1, a,
                         [shelf |-> shelf, source |-> source,
                          locked |-> LockValue(source, lk)])]
           IN  IF source = SHELF_SOURCE_MANUAL
               THEN LET v == pkg_vote_for_shelf(h2, a, shelf, Inf, "manual override")
                    IN  Outcome(v.h, Returned(shelf, None), v.log)
               ELSE Outcome(h2, Returned(shelf, None), NoLog)

pkg_set_album_shelf(h, a, shelf, source, lk) ==
  LET st1 == SetDefaultState(h.st, a)
      h1 == [h EXCEPT !.st = st1]
  IN  IF Rejected(st1[a], source)
      THEN Outcome(h1, Returned(st1[a].shelf, None), NoLog)
      ELSE LET h2 == [h EXCEPT !.st = Put(st1, a,
                         [shelf |-> shelf, source |-> source,
                          locked |-> LockValue(source, lk)])]
           IN  IF source = SHELF_SOURCE_MANUAL
               THEN LET v == pkg_vote_for_shelf(h2, a, shelf, Inf, "manual override")
                    IN  Outcome(v.h, Returned(shelf, None), v.log)
               ELSE Outcome(h2, Returned(shelf, None), NoLog)

pkg_clear_manual_override(h, a) ==
  LET st1 == SetDefaultState(h.st, a)
      e == st1[a]
  IN  Outcome([h EXCEPT !.st = Put(st1, a,
                 [e EXCEPT !.locked = FALSE,
                           !.source = IF e.source = SHELF_SOURCE_MANUAL
                                      THEN SHELF_SOURCE_VOTES ELSE e.source])],
              Returned(None, None), NoLog)

_get_manual_override(h, a) ==
  LET e == Get(h.st, a, EmptyState)
  IN  IF e.locked \/ e.source = SHELF_SOURCE_MANUAL THEN e.shelf ELSE None

\* The fallback tier, read under the lock.
get_fallback(h, a) ==
  LET shelf_name == Get(h.sba, a, None)
  IN  Outcome(h, Returned(shelf_name, SHELF_SOURCE_FALLBACK),
              IF shelf_name = None THEN NotFound(a) ELSE NoLog)

\* A get_album_shelf that reads _STATE[album_id]: indexing a defaultdict
\* creates the entry it does not find.
pkg_get_album_shelf_indexing(h, a) ==
  LET h1 == [h EXCEPT !.st = SetDefaultState(h.st, a)]
      manual_shelf == _get_manual_override(h1, a)
      chosen == _winner(Get(h1.vl, a, <<>>))
  IN  IF Truthy(manual_shelf)
      THEN Outcome(h1, Returned(manual_shelf, SHELF_SOURCE_MANUAL), NoLog)
      ELSE IF Truthy(chosen)
      THEN Outcome(h1, Returned(chosen, SHELF_SOURCE_VOTES), NoLog)
      ELSE get_fallback(h1, a)

pkg_get_album_shelf(h, a) ==
  LET manual_shelf == _get_manual_override(h, a)
      chosen == _winner(Get(h.vl, a, <<>>))
  IN  IF Truthy(manual_shelf)
      THEN Outcome(h, Returned(manual_shelf, SHELF_SOURCE_MANUAL), NoLog)
      ELSE IF Truthy(chosen)
      THEN Outcome(h, Returned(chosen, SHELF_SOURCE_VOTES), NoLog)
      ELSE get_fallback(h, a)

\* with self._lock: pop the counter and the fallback winner
pkg_clear_locked(h, a) == [h EXCEPT !.sba = Pop(h.sba, a), !.sv = Pop(h.sv, a)]
\* A clear_album that leaves the fallback winner in place.
pkg_clear_album_keeping_winner(h, a) ==
  Outcome([h EXCEPT !.sv = Pop(h.sv, a), !.st = Pop(h.st, a),
                    !.vl = Pop(h.vl, a)],
          Returned(None, None), NoLog)

pkg_clear_album(h, a) ==
  LET h1 == pkg_clear_locked(h, a)
  IN  Outcome([h1 EXCEPT !.st = Pop(h1.st, a), !.vl = Pop(h1.vl, a)],
              Returned(None, None), NoLog)

\* --------------------------------------------- src/shelves/manager.py (mgr)
\* The critical section of vote_for_shelf.  _shelf_votes[album] is a Counter
\* here too, but the same entry is written as the vote store below: on a
\* list, [shelf_name] raises; with the keys of a vote in the Counter,
\* most_common compares an int with a str and raises, after the increment.
mgr_vote_locked(h, a, s) ==
  LET c0 == IF a \in DOMAIN h.sv THEN h.sv[a] ELSE NewCounter
      c1 == [c0 EXCEPT !.items = Incr(c0.items, s)]
      h1 == [h EXCEPT !.sv = Put(h.sv, a, c1)]
      winner == FirstMaxKey(c1.items)
  IN  IF c0.kind = "list" THEN [h |-> h, exc |-> "TypeError"]
      ELSE IF c1.junk THEN [h |-> h1, exc |-> "TypeError"]
      ELSE [h |-> [h1 EXCEPT !.sba = Put(h.sba, a, winner),
                             !.ld = IF Len(c1.items) > 1
                                    THEN Conflict(a, c1.items, winner)
                                    ELSE h.ld],
            exc |-> None]

\* vote = _shelf_votes.setdefault(album_id, []); vote["shelf_name"] = ...
mgr_vote_store(h, a) ==
  IF a \notin DOMAIN h.sv
  THEN [h |-> [h EXCEPT !.sv = Put(h.sv, a, NewList)], exc |-> "TypeError"]
  ELSE IF h.sv[a].kind = "list" THEN [h |-> h, exc |-> "TypeError"]
  ELSE [h |-> [h EXCEPT !.sv = Put(h.sv, a, [h.sv[a] EXCEPT !.junk = TRUE])],
        exc |-> None]

\* if cls._instance.log_data: log.warning(...): the namedtuple class and a
\* conflict tuple are both truthy.
mgr_vote_log(h) == IF h.ld.kind \in {"class", "tuple"} THEN h.ld ELSE NoLog

mgr_vote_for_shelf(h, a, s, w, reason) ==
  IF IsBlank(s) THEN Outcome(h, Returned(None, None), NoLog)
  ELSE LET r1 == mgr_vote_locked(h, a, s)
           r2 == mgr_vote_store(r1.h, a)
       IN  IF r1.exc # None THEN Outcome(r1.h, Raised(r1.exc), NoLog)
           ELSE IF r2.exc # None THEN Outcome(r2.h, Raised(r2.exc), NoLog)
           ELSE Outcome(r2.h, Returned(None, None), mgr_vote_log(r2.h))

mgr_set_album_shelf(h, a, shelf, source, lk) ==
  LET st1 == SetDefaultState(h.st, a)
      h1 == [h EXCEPT !.st = st1]
  IN  IF Rejected(st1[a], source)
      THEN Outcome(h1, Returned(st1[a].shelf, None), NoLog)
      ELSE LET h2 == [h EXCEPT !.st = Put(st1, a,
                         [shelf |-> shelf, source |-> source,
                          locked |-> LockValue(source, lk)])]
           IN  IF source = SHELF_SOURCE_MANUAL
               THEN LET v == mgr_vote_for_shelf(h2, a, shelf, Inf, "manual override")
                    IN  Outcome(v.h,
                                IF v.ret.exc # None THEN v.ret
                                ELSE Returned(shelf, None),
                                v.log)
               ELSE Outcome(h2, Returned(shelf, None), NoLog)

mgr_clear_manual_override(h, a) ==
  LET st1 == SetDefaultState(h.st, a)
      e == st1[a]
  IN  Outcome([h EXCEPT !.st = Put(st1, a,
                 [e EXCEPT !.locked = FALSE,
                           !.source = IF e.source = SHELF_SOURCE_MANUAL
                                      THEN SHELF_SOURCE_VOTES ELSE e.source])],
              Returned(None, None), NoLog)

\* _winner(_shelf_votes.get(album_id, [])): an empty Counter or list is
\* falsy; iterating a Counter yields its keys, and unpacking a shelf name
\* into (shelf, weight, _) raises ValueError.
mgr_winner(h, a) ==
  LET votes == Get(h.sv, a, NewList)
  IN  IF votes.items = <<>> /\ ~votes.junk THEN Returned(None, None)
      ELSE Raised("ValueError")

mgr_get_album_shelf(h, a) ==
  LET manual_shelf == _get_manual_override(h, a)
      chosen == mgr_winner(h, a)
  IN  IF Truthy(manual_shelf)
      THEN Outcome(h, Returned(manual_shelf, SHELF_SOURCE_MANUAL), NoLog)
      ELSE IF chosen.exc # None THEN Outcome(h, chosen, NoLog)
      ELSE get_fallback(h, a)

\* A clear_album that pops the fallback winner only.
mgr_clear_album_winner_only(h, a) ==
  Outcome([h EXCEPT !.sba = Pop(h.sba, a)], Returned(None, None), NoLog)

\* No lock is taken, and _shelf_state is not touched.
mgr_clear_album(h, a) ==
  Outcome([h EXCEPT !.sba = Pop(h.sba, a), !.sv = Pop(h.sv, a)],
          Returned(None, None), NoLog)

\* --------------------------------------------------- the handler in module M
vote_for_shelf(M, h, a, s, w, reason) ==
  IF M = "pkg" THEN pkg_vote_for_shelf(h, a, s, w, reason)
  ELSE mgr_vote_for_shelf(h, a, s, w, reason)
set_album_shelf(M, h, a, shelf, source, lk) ==
  IF M = "pkg" THEN pkg_set_album_shelf(h, a, shelf, source, lk)
  ELSE mgr_set_album_shelf(h, a, shelf, source, lk)
clear_manual_override(M, h, a) ==
  IF M = "pkg" THEN pkg_clear_manual_override(h, a)
  ELSE mgr_clear_manual_override(h, a)
get_album_shelf(M, h, a) ==
  IF M = "pkg" THEN pkg_get_album_shelf(h, a) ELSE mgr_get_album_shelf(h, a)
clear_album(M, h, a) ==
  IF M = "pkg" THEN pkg_clear_album(h, a) ELSE mgr_clear_album(h, a)

\* ==================================================================== state
VARIABLES
  module,             \* which ShelfManager the host imported: "pkg" or "mgr"
  _shelf_state,       \* album -> [shelf, source, locked]
  _VOTES,             \* album -> sequence of <<shelf, weight, reason>>
  _shelf_votes,       \* album -> Counter (occurrences per shelf)
  _shelves_by_album,  \* album -> fallback winner
  log_data,           \* manager.py: the instance attribute log_data
  called,             \* the last call: [op, album, source]
  ret,                \* what the last call returned or raised
  logged,             \* the warning the last call logged
  hist,               \* history, per album: what the callers have done
  _lock,              \* the mutex: the thread holding it, or None
  pc,                 \* threaded runs: where each thread stands
  frame,              \* threaded runs: the arguments and locals of its call
  done,               \* threaded runs: the calls each thread has completed
  file,               \* the file the host hands to the processors
  setting,            \* config.setting: the host's settings
  singleton,          \* manager.py: the class attribute _instance and the
                      \* instances made so far
  callback            \* actions.py: a run of DetermineShelfAction.callback

data == <<_shelf_state, _VOTES, _shelf_votes, _shelves_by_album, log_data>>
seqvars == <<called, ret, logged, hist>>
tvars == <<_lock, pc, frame, done>>
vars == <<module, _shelf_state, _VOTES, _shelf_votes, _shelves_by_album,
          log_data, called, ret, logged, hist, _lock, pc, frame, done, file,
          setting, singleton, callback>>
host == <<file, setting, singleton, callback>>

Threads == {"t1", "t2"}
NoFrame == [op |-> None, album |-> None, shelf |-> None, weight |-> 0,
            source |-> None, lk |-> None, inner |-> FALSE,
            log_data |-> NoLog, log |-> NoLog, log_locked |-> FALSE]

Heap == [st |-> _shelf_state, vl |-> _VOTES, sv |-> _shelf_votes,
         sba |-> _shelves_by_album, ld |-> log_data]

RECURSIVE SumCounts(_)
SumCounts(items) ==
  IF items = <<>> THEN 0 ELSE Head(items)[2] + SumCounts(Tail(items))
RECURSIVE TotalVotes(_, _)
TotalVotes(sv, albums) ==
  IF albums = {} THEN 0
  ELSE LET a == CHOOSE x \in albums : TRUE
       IN  (IF a \in DOMAIN sv THEN SumCounts(sv[a].items) ELSE 0)
           + TotalVotes(sv, albums \ {a})
\* The model's bound on the votes applied.
CanVote == TotalVotes(_shelf_votes, Albums) < MaxVotes

\* A file of the host: meta says that it has (non-empty) metadata, album is
\* its musicbrainz_albumid (None without one), shelf the value of its shelf
\* tag ("" without one), path the shelf directory it lies in under the base
\* path (None outside of every shelf directory).
\* explicit says that the path names that directory explicitly.
NoFile == [meta |-> FALSE, album |-> None, shelf |-> "", path |-> None,
           explicit |-> FALSE]
\* config.setting is a dict: keys are the workflow keys it holds (enabled,
\* stage1, stage2, includes), the other fields their values; the value of a
\* key that is not held is never read.
NoSetting == [keys |-> {}, enabled |-> FALSE, stage1 |-> {}, stage2 |-> <<>>,
              includes |-> FALSE]
\* The singleton of manager.py where one instance exists from the start and
\* is never destroyed: its attributes are the variables above.
\* No run of the action: nothing selected, no step taken.
NoCallback == [phase |-> "none", objs |-> <<>>, files |-> <<>>, k |-> 0,
               tag |-> <<>>, album_ids_to_reinitialize |-> {}, cleared |-> {},
               events |-> <<>>]
NoInstance == 0
NoSingleton == [_instance |-> NoInstance, objects |-> <<>>, handle |-> <<>>]

\* History of one album: pinned is the shelf of a manual, locking set that
\* returned and that no clear_manual_override, clear_album or later manual
\* set has followed; released says that the last mutation of the album was
\* the clear_manual_override ending such a pin; cast are the votes the
\* callers cast through vote_for_shelf since the album's last clear_album;
\* counts are the votes made for each shelf since then, in the order the
\* shelves were first voted for, a manual set_album_shelf counting as a vote.
NoHist == [pinned |-> None, released |-> FALSE, cast |-> <<>>, counts |-> <<>>]

Call(op, a, source) == [op |-> op, album |-> a, source |-> source]

Init ==
  /\ module \in Modules
  /\ _shelf_state = EmptyDict
  /\ _VOTES = EmptyDict
  /\ _shelf_votes = EmptyDict
  /\ _shelves_by_album = EmptyDict
  /\ log_data = IF module = "mgr" THEN NamedTupleClass ELSE NoLog
  /\ called = Call("init", None, None)
  /\ ret = Returned(None, None)
  /\ logged = NoLog
  /\ hist = [a \in Albums |-> NoHist]
  /\ _lock = None
  /\ pc = [t \in Threads |-> "idle"]
  /\ frame = [t \in Threads |-> NoFrame]
  /\ done = [t \in Threads |-> <<>>]
  /\ file = NoFile
  /\ setting = NoSetting
  /\ singleton = NoSingleton
  /\ callback = NoCallback

\* The heap, the result and the log after a call with outcome out.
Apply(out) ==
  /\ _shelf_state' = out.h.st
  /\ _VOTES' = out.h.vl
  /\ _shelf_votes' = out.h.sv
  /\ _shelves_by_album' = out.h.sba
  /\ log_data' = out.h.ld
  /\ ret' = out.ret
  /\ logged' = out.log
  /\ UNCHANGED <<module, host, tvars>>

\* ------------------------------------------------- sequential calls (Spec)
VoteForShelf(a, s, w) ==
  /\ IsBlank(s) \/ CanVote
  /\ Apply(vote_for_shelf(module, Heap, a, s, w, "r"))
  /\ called' = Call("vote_for_shelf", a, None)
  /\ hist' = IF IsBlank(s) THEN hist
             ELSE [hist EXCEPT ![a].cast = Append(@, <<s, w>>),
                               ![a].counts = Incr(@, s),
                               ![a].released = FALSE]

SetAlbumShelf(a, s, source, lk) ==
  /\ (source = SHELF_SOURCE_MANUAL /\ ~IsBlank(s)) => CanVote
  /\ LET out == set_album_shelf(module, Heap, a, s, source, lk)
     IN  /\ Apply(out)
         /\ hist' = IF source # SHELF_SOURCE_MANUAL
                    THEN [hist EXCEPT ![a].released = FALSE]
                    ELSE [hist EXCEPT
                            ![a].released = FALSE,
                            ![a].counts = IF IsBlank(s) THEN @ ELSE Incr(@, s),
                            ![a].pinned =
                               IF /\ LockValue(source, lk)
                                  /\ Truthy(s)
                                  /\ out.ret.exc = None
                               THEN s ELSE None]
  /\ called' = Call("set_album_shelf", a, source)

ClearManualOverride(a) ==
  /\ Apply(clear_manual_override(module, Heap, a))
  /\ called' = Call("clear_manual_override", a, None)
  /\ hist' = [hist EXCEPT ![a].released = (hist[a].pinned # None),
                          ![a].pinned = None]

GetAlbumShelf(a) ==
  /\ Apply(get_album_shelf(module, Heap, a))
  /\ called' = Call("get_album_shelf", a, None)
  /\ UNCHANGED hist

ClearAlbum(a) ==
  /\ Apply(clear_album(module, Heap, a))
  /\ called' = Call("clear_album", a, None)
  /\ hist' = [hist EXCEPT ![a] = NoHist]

Sources == {SHELF_SOURCE_MANUAL, SHELF_SOURCE_VOTES}
LockArgs == {None, "True", "False"}

Next ==
  \/ \E a \in Albums, s \in ShelfArgs, w \in Weights : VoteForShelf(a, s, w)
  \/ \E a \in Albums, s \in Shelves \cup {""}, source \in Sources, lk \in LockArgs :
       SetAlbumShelf(a, s, source, lk)
  \/ \E a \in Albums : ClearManualOverride(a)
  \/ \E a \in Albums : GetAlbumShelf(a)
  \/ \E a \in Albums : ClearAlbum(a)

Spec == Init /\ [][Next]_vars

\* ================================================================== claims
\* What get_album_shelf(a) returns (or raises) in the current state.
Resolved(a) == get_album_shelf(module, Heap, a).ret
Entry(a) == Get(_shelf_state, a, EmptyState)

\* The summed weight the callers' votes gave shelf s.
RECURSIVE CastSum(_, _)
CastSum(cast, s) ==
  IF cast = <<>> THEN 0
  ELSE (IF Head(cast)[1] = s THEN Head(cast)[2] ELSE 0) + CastSum(Tail(cast), s)
CastShelves(cast) == {cast[i][1] : i \in 1..Len(cast)}
\* s is a shelf the callers voted for and none has a larger summed weight.
CastWinner(cast, s) ==
  /\ s \in CastShelves(cast)
  /\ \A t \in CastShelves(cast) : CastSum(cast, t) <= CastSum(cast, s)

\* C1 - Manual precedence: once set_album_shelf(a, s, Manual, lock=true) with
\* a non-empty s has returned, get_album_shelf(a) returns (s, Manual) after
\* any votes and non-manual set_album_shelf calls for a, until
\* clear_manual_override(a) (or another manual set, or clear_album).
C1_ManualPrecedence ==
  \A a \in Albums :
    hist[a].pinned # None =>
      Resolved(a) = Returned(hist[a].pinned, SHELF_SOURCE_MANUAL)

\* C1 witness: a pinned album that has since received a vote for another
\* shelf and, last, a non-manual set_album_shelf.
C1_Witness ==
  \E a \in Albums :
    /\ hist[a].pinned = "Standard"
    /\ \E i \in 1..Len(hist[a].cast) : hist[a].cast[i][1] = "Incoming"
    /\ called = Call("set_album_shelf", a, SHELF_SOURCE_VOTES)

\* C2 - Weighted-vote correctness: an album without manual or locked state
\* and with at least one vote resolves to (w, Voted), w a shelf of maximal
\* summed weight among the votes cast for it.
C2_WeightedVoteCorrect ==
  \A a \in Albums :
    (/\ ~Entry(a).locked
     /\ Entry(a).source # SHELF_SOURCE_MANUAL
     /\ hist[a].cast # <<>>) =>
      /\ Resolved(a).exc = None
      /\ Resolved(a).source = SHELF_SOURCE_VOTES
      /\ CastWinner(hist[a].cast, Resolved(a).shelf)

\* C3 - After a manual locking set, any votes, then clear_manual_override,
\* the album resolves to (w, Voted), w the shelf of the largest total weight
\* among the votes cast through vote_for_shelf.
C3_ClearOverrideRestoresVotes ==
  \A a \in Albums :
    (hist[a].released /\ hist[a].cast # <<>>) =>
      /\ Resolved(a).exc = None
      /\ Resolved(a).source = SHELF_SOURCE_VOTES
      /\ CastWinner(hist[a].cast, Resolved(a).shelf)

\* C4 - Clear completeness: after clear_album(a) has returned, the album
\* resolves to (None, Fallback) and no vote record, counter, fallback winner
\* or state entry of it remains; clear_album never raises.
C4_ClearCompleteness ==
  \A a \in Albums :
    called = Call("clear_album", a, None) =>
      /\ ret.exc = None
      /\ Resolved(a) = Returned(None, SHELF_SOURCE_FALLBACK)
      /\ a \notin DOMAIN _VOTES
      /\ a \notin DOMAIN _shelf_votes
      /\ a \notin DOMAIN _shelves_by_album
      /\ a \notin DOMAIN _shelf_state

\* C5 - Locked-write rejection: a set_album_shelf with a source other than
\* Manual on a locked album returns the existing current_shelf and leaves
\* the state entry, the vote records, the counters and the fallback winner
\* unchanged, whatever its shelf and lock arguments.
C5_LockedWriteRejected ==
  [][\A a \in Albums :
       (/\ called'.op = "set_album_shelf"
        /\ called'.album = a
        /\ called'.source # SHELF_SOURCE_MANUAL
        /\ a \in DOMAIN _shelf_state
        /\ _shelf_state[a].locked) =>
         /\ ret' = Returned(_shelf_state[a].shelf, None)
         /\ UNCHANGED data]_vars

\* C5 witness: a non-manual set_album_shelf has just been answered with the
\* shelf of a locked, manual entry while votes for another shelf exist.
C5_Witness ==
  \E a \in Albums :
    /\ called = Call("set_album_shelf", a, SHELF_SOURCE_VOTES)
    /\ a \in DOMAIN _shelf_state
    /\ _shelf_state[a] = [shelf |-> "Incoming", source |-> SHELF_SOURCE_MANUAL,
                          locked |-> TRUE]
    /\ ret = Returned("Incoming", None)
    /\ \E i \in 1..Len(hist[a].cast) : hist[a].cast[i][1] = "Standard"

\* C6 - In every reachable state, locked implies source = Manual.
C6_LockedImpliesManual ==
  \A a \in DOMAIN _shelf_state :
    _shelf_state[a].locked => _shelf_state[a].source = SHELF_SOURCE_MANUAL

\* C7 - First tier of get_album_shelf: a locked or Manual state resolves to
\* (current_shelf, Manual), whatever current_shelf is and whatever votes
\* exist.
C7_ManualTierFirst ==
  \A a \in Albums :
    (Entry(a).locked \/ Entry(a).source = SHELF_SOURCE_MANUAL) =>
      Resolved(a) = Returned(Entry(a).shelf, SHELF_SOURCE_MANUAL)

\* ======================================================== threaded runs
\* Worker threads of the host call the resolver concurrently.  A thread
\* takes one step at a time; a step is one access to the shared maps, or
\* one critical section (the maps a critical section of the package touches
\* are touched under the mutex only; in manager.py, whose clear_album and
\* vote store take no lock, the section is still one step: the finer
\* interleavings only add ways in which it raises, and a with block
\* releases the mutex however it is left).
SetHeap(h) ==
  /\ _shelf_state' = h.st
  /\ _VOTES' = h.vl
  /\ _shelf_votes' = h.sv
  /\ _shelves_by_album' = h.sba
  /\ log_data' = h.ld

\* Thread t's call returns (or raises) result with frame f.
Return(t, f, result) ==
  /\ pc' = [pc EXCEPT ![t] = "idle"]
  /\ frame' = [frame EXCEPT ![t] = NoFrame]
  /\ done' = [done EXCEPT ![t] = Append(@,
       [op |-> f.op, album |-> f.album, shelf |-> f.shelf, source |-> f.source,
        ret |-> result, log |-> f.log, log_locked |-> f.log_locked])]

Goto(t, label, f) ==
  /\ pc' = [pc EXCEPT ![t] = label]
  /\ frame' = [frame EXCEPT ![t] = f]
  /\ UNCHANGED done

RECURSIVE CallsMade(_)
CallsMade(threads) ==
  IF threads = {} THEN 0
  ELSE LET t == CHOOSE x \in threads : TRUE
       IN  Len(done[t]) + (IF pc[t] = "idle" THEN 0 ELSE 1)
           + CallsMade(threads \ {t})

Begin(t, label, f) ==
  /\ pc[t] = "idle"
  /\ CallsMade(Threads) < MaxCalls
  /\ Goto(t, label, f)
  /\ UNCHANGED <<module, host, data, seqvars, _lock>>

TCallVote(t, a, s, w) ==
  Begin(t, "v_check",
        [NoFrame EXCEPT !.op = "vote_for_shelf", !.album = a, !.shelf = s,
                        !.weight = w])
TCallSet(t, a, s, source, lk) ==
  Begin(t, "s_check",
        [NoFrame EXCEPT !.op = "set_album_shelf", !.album = a, !.shelf = s,
                        !.source = source, !.lk = lk])
TCallClearOverride(t, a) ==
  Begin(t, "c_run", [NoFrame EXCEPT !.op = "clear_manual_override", !.album = a])
TCallGet(t, a) ==
  Begin(t, "g_manual", [NoFrame EXCEPT !.op = "get_album_shelf", !.album = a])
TCallClear(t, a) ==
  Begin(t, IF module = "pkg" THEN "k_acquire" ELSE "k_winner",
        [NoFrame EXCEPT !.op = "clear_album", !.album = a])

\* with self._lock: / with cls._lock: blocks until the mutex is free.
Acquire(t, from, to) ==
  /\ pc[t] = from
  /\ _lock = None
  /\ _lock' = t
  /\ Goto(t, to, frame[t])
  /\ UNCHANGED <<module, host, data, seqvars>>

\* What a vote returns to its caller: set_album_shelf returns shelf after
\* its inner vote, and lets the vote's exception through.
VoteResult(f, exc) ==
  IF exc # None THEN Raised(exc)
  ELSE IF f.inner THEN Returned(f.shelf, None) ELSE Returned(None, None)

\* if not shelf or not shelf.strip(): return
TVoteCheck(t) ==
  /\ pc[t] = "v_check"
  /\ IF IsBlank(frame[t].shelf)
     THEN Return(t, frame[t], VoteResult(frame[t], None))
     ELSE Goto(t, "v_acquire", frame[t])
  /\ UNCHANGED <<module, host, data, seqvars, _lock>>

TVoteAcquire(t) == Acquire(t, "v_acquire", "v_locked")

\* The critical section; leaving it, also by an exception, frees the mutex.
TVoteLocked(t) ==
  /\ pc[t] = "v_locked"
  /\ _lock = t
  /\ _lock' = None
  /\ LET f == frame[t] IN
     IF module = "pkg"
     THEN LET r == pkg_vote_locked(Heap, f.album, f.shelf)
          IN  /\ SetHeap(r.h)
              /\ Goto(t, "v_store", [f EXCEPT !.log_data = r.log_data])
     ELSE LET r == mgr_vote_locked(Heap, f.album, f.shelf)
          IN  /\ SetHeap(r.h)
              /\ IF r.exc # None
                 THEN Return(t, f, Raised(r.exc))
                 ELSE Goto(t, "v_store", f)
  /\ UNCHANGED <<module, host, seqvars>>

\* The weighted record is stored, and the conflict logged, outside the lock.
TVoteStore(t) ==
  /\ pc[t] = "v_store"
  /\ LET f == frame[t] IN
     IF module = "pkg"
     THEN /\ SetHeap(pkg_vote_append(Heap, f.album, f.shelf, f.weight, "r"))
          /\ Return(t, [f EXCEPT !.log = f.log_data, !.log_locked = (_lock = t)],
                    VoteResult(f, None))
     ELSE LET r == mgr_vote_store(Heap, f.album)
          IN  /\ SetHeap(r.h)
              /\ IF r.exc # None
                 THEN Return(t, f, Raised(r.exc))
                 ELSE Return(t, [f EXCEPT !.log = mgr_vote_log(r.h),
                                          !.log_locked = (_lock = t)],
                             VoteResult(f, None))
  /\ UNCHANGED <<module, host, seqvars, _lock>>

\* st = setdefault(album_id, {}); a locked entry rejects a non-manual write.
TSetCheck(t) ==
  /\ pc[t] = "s_check"
  /\ LET f == frame[t]
         st1 == SetDefaultState(_shelf_state, f.album)
     IN  /\ _shelf_state' = st1
         /\ IF Rejected(st1[f.album], f.source)
            THEN Return(t, f, Returned(st1[f.album].shelf, None))
            ELSE Goto(t, "s_write", f)
  /\ UNCHANGED <<module, host, _VOTES, _shelf_votes, _shelves_by_album, log_data,
                 seqvars, _lock>>

\* A set_album_shelf that writes the entry under the mutex and calls
\* vote_for_shelf inside that critical section.
TSetWrite_holding_lock(t) ==
  /\ pc[t] = "s_write"
  /\ _lock = None
  /\ LET f == frame[t] IN
     /\ _shelf_state' = Put(_shelf_state, f.album,
                            [shelf |-> f.shelf, source |-> f.source,
                             locked |-> LockValue(f.source, f.lk)])
     /\ IF f.source = SHELF_SOURCE_MANUAL
        THEN /\ Goto(t, "v_check", [f EXCEPT !.inner = TRUE, !.weight = Inf])
             /\ _lock' = t
        ELSE /\ Return(t, f, Returned(f.shelf, None))
             /\ UNCHANGED _lock
  /\ UNCHANGED <<module, host, _VOTES, _shelf_votes, _shelves_by_album, log_data,
                 seqvars>>

\* The three writes of the entry; a manual set goes on to vote_for_shelf.
TSetWrite(t) ==
  /\ pc[t] = "s_write"
  /\ LET f == frame[t] IN
     /\ _shelf_state' = Put(_shelf_state, f.album,
                            [shelf |-> f.shelf, source |-> f.source,
                             locked |-> LockValue(f.source, f.lk)])
     /\ IF f.source = SHELF_SOURCE_MANUAL
        THEN Goto(t, "v_check", [f EXCEPT !.inner = TRUE, !.weight = Inf])
        ELSE Return(t, f, Returned(f.shelf, None))
  /\ UNCHANGED <<module, host, _VOTES, _shelf_votes, _shelves_by_album, log_data,
                 seqvars, _lock>>

TClearOverride(t) ==
  /\ pc[t] = "c_run"
  /\ SetHeap(clear_manual_override(module, Heap, frame[t].album).h)
  /\ Return(t, frame[t], Returned(None, None))
  /\ UNCHANGED <<module, host, seqvars, _lock>>

\* Tier 1, read without the lock.
TGetManual(t) ==
  /\ pc[t] = "g_manual"
  /\ LET manual_shelf == _get_manual_override(Heap, frame[t].album) IN
     IF Truthy(manual_shelf)
     THEN Return(t, frame[t], Returned(manual_shelf, SHELF_SOURCE_MANUAL))
     ELSE Goto(t, "g_winner", frame[t])
  /\ UNCHANGED <<module, host, data, seqvars, _lock>>

\* Tier 2, read without the lock.
TGetWinner(t) ==
  /\ pc[t] = "g_winner"
  /\ LET f == frame[t]
         chosen == IF module = "pkg"
                   THEN Returned(_winner(Get(_VOTES, f.album, <<>>)), SHELF_SOURCE_VOTES)
                   ELSE mgr_winner(Heap, f.album)
     IN  IF chosen.exc # None \/ Truthy(chosen.shelf)
         THEN Return(t, f, chosen)
         ELSE Goto(t, "g_acquire", f)
  /\ UNCHANGED <<module, host, data, seqvars, _lock>>

TGetAcquire(t) == Acquire(t, "g_acquire", "g_locked")

\* Tier 3: the fallback winner is read, and its absence logged, under the lock.
TGetLocked(t) ==
  /\ pc[t] = "g_locked"
  /\ _lock = t
  /\ LET out == get_fallback(Heap, frame[t].album) IN
     Goto(t, "g_release",
          [frame[t] EXCEPT !.shelf = out.ret.shelf, !.log = out.log,
                           !.log_locked = (out.log # NoLog /\ _lock = t)])
  /\ UNCHANGED <<module, host, data, seqvars, _lock>>

TGetRelease(t) ==
  /\ pc[t] = "g_release"
  /\ _lock = t
  /\ _lock' = None
  /\ Return(t, [frame[t] EXCEPT !.shelf = None],
            Returned(frame[t].shelf, SHELF_SOURCE_FALLBACK))
  /\ UNCHANGED <<module, host, data, seqvars>>

\* clear_album of the package: counters under the lock, then _STATE, _VOTES.
TClearAcquire(t) == Acquire(t, "k_acquire", "k_locked")

TClearLocked(t) ==
  /\ pc[t] = "k_locked"
  /\ _lock = t
  /\ _lock' = None
  /\ SetHeap(pkg_clear_locked(Heap, frame[t].album))
  /\ Goto(t, "k_state", frame[t])
  /\ UNCHANGED <<module, host, seqvars>>

TClearState(t) ==
  /\ pc[t] = "k_state"
  /\ _shelf_state' = Pop(_shelf_state, frame[t].album)
  /\ Goto(t, "k_votes", frame[t])
  /\ UNCHANGED <<module, host, _VOTES, _shelf_votes, _shelves_by_album, log_data,
                 seqvars, _lock>>

TClearVotes(t) ==
  /\ pc[t] = "k_votes"
  /\ _VOTES' = Pop(_VOTES, frame[t].album)
  /\ Return(t, frame[t], Returned(None, None))
  /\ UNCHANGED <<module, host, _shelf_state, _shelf_votes, _shelves_by_album, log_data,
                 seqvars, _lock>>

\* clear_album of manager.py: two pops, no lock.
TClearWinner(t) ==
  /\ pc[t] = "k_winner"
  /\ _shelves_by_album' = Pop(_shelves_by_album, frame[t].album)
  /\ Goto(t, "k_counter", frame[t])
  /\ UNCHANGED <<module, host, _shelf_state, _VOTES, _shelf_votes, log_data,
                 seqvars, _lock>>

TClearCounter(t) ==
  /\ pc[t] = "k_counter"
  /\ _shelf_votes' = Pop(_shelf_votes, frame[t].album)
  /\ Return(t, frame[t], Returned(None, None))
  /\ UNCHANGED <<module, host, _shelf_state, _VOTES, _shelves_by_album, log_data,
                 seqvars, _lock>>

\* A step of thread t inside a call.
Step(t) ==
  \/ TVoteCheck(t)
  \/ TVoteAcquire(t)
  \/ TVoteLocked(t)
  \/ TVoteStore(t)
  \/ TSetCheck(t)
  \/ TSetWrite(t)
  \/ TClearOverride(t)
  \/ TGetManual(t)
  \/ TGetWinner(t)
  \/ TGetAcquire(t)
  \/ TGetLocked(t)
  \/ TGetRelease(t)
  \/ TClearAcquire(t)
  \/ TClearLocked(t)
  \/ TClearState(t)
  \/ TClearVotes(t)
  \/ TClearWinner(t)
  \/ TClearCounter(t)

\* The calls the threads make.
TWeights == {1}
TLockArgs == {None}
NewCall(t) ==
  \/ \E a \in Albums, s \in Shelves, w \in TWeights : TCallVote(t, a, s, w)
  \/ \E a \in Albums, s \in Shelves, source \in Sources, lk \in TLockArgs :
       TCallSet(t, a, s, source, lk)
  \/ \E a \in Albums : TCallClearOverride(t, a)
  \/ \E a \in Albums : TCallGet(t, a)
  \/ \E a \in Albums : TCallClear(t, a)

NextThreads == \E t \in Threads : NewCall(t) \/ Step(t)

\* The scheduler is fair: a thread that can take a step eventually takes one.
SpecThreads ==
  Init /\ [][NextThreads]_vars /\ \A t \in Threads : WF_vars(Step(t))

\* ---------------------------------------------------- claims, threaded runs
AllIdle == \A t \in Threads : pc[t] = "idle"
\* The calls completed by all threads, as a set of <<thread, index>>.
Completed == {<<t, i>> : t \in Threads, i \in 1..MaxCalls} \cap
             {x \in Threads \X (1..MaxCalls) : x[2] <= Len(done[x[1]])}
CallAt(x) == done[x[1]][x[2]]
IsVote(c, a) == c.op = "vote_for_shelf" /\ c.album = a /\ ~IsBlank(c.shelf)

\* The weighted record of a vote for s is stored: in _VOTES by the package,
\* as the keys of the vote in the album's _shelf_votes entry by manager.py.
VoteRecordStored(a, s) ==
  IF module = "pkg"
  THEN a \in DOMAIN _VOTES /\ \E i \in 1..Len(_VOTES[a]) : _VOTES[a][i][1] = s
  ELSE a \in DOMAIN _shelf_votes /\ _shelf_votes[a].junk
VoteCounted(a, s) ==
  /\ a \in DOMAIN _shelf_votes
  /\ _shelf_votes[a].kind = "Counter"
  /\ ValueOf(_shelf_votes[a].items, s) = 1
NothingOfAlbum(a) ==
  /\ a \notin DOMAIN _VOTES
  /\ a \notin DOMAIN _shelf_votes
  /\ a \notin DOMAIN _shelves_by_album

\* C8 - clear_album is atomic with respect to a concurrent vote_for_shelf
\* for the same album: after both have returned the state holds the vote
\* completely (record, count and fallback winner) or nothing of it.
C8_ClearAtomicWithVote ==
  \A a \in Albums, t \in Threads, u \in Threads :
    (/\ AllIdle
     /\ Len(done[t]) = 1 /\ IsVote(done[t][1], a)
     /\ Len(done[u]) = 1 /\ done[u][1].op = "clear_album" /\ done[u][1].album = a) =>
      \/ NothingOfAlbum(a)
      \/ /\ VoteRecordStored(a, done[t][1].shelf)
         /\ VoteCounted(a, done[t][1].shelf)
         /\ Get(_shelves_by_album, a, None) = done[t][1].shelf

\* The number of completed calls that voted for shelf s of album a.
VotesFor(a, s) == Cardinality({x \in Completed : IsVote(CallAt(x), a) /\ CallAt(x).shelf = s})
RecordsStored(a) == IF module = "pkg" THEN Len(Get(_VOTES, a, <<>>)) ELSE 0

\* C9 - No lost updates: when the threads have voted concurrently for one
\* album and all calls have returned, every shelf's counter equals the
\* number of calls made for it, one VoteRecord per call is stored, and the
\* stored fallback winner is a shelf of maximal count.
C9_NoLostUpdates ==
  \A a \in Albums :
    (/\ AllIdle
     /\ \A t \in Threads : Len(done[t]) >= 1
     /\ \A x \in Completed : IsVote(CallAt(x), a)) =>
      /\ \A x \in Completed : CallAt(x).ret.exc = None
      /\ a \in DOMAIN _shelf_votes
      /\ _shelf_votes[a].kind = "Counter"
      /\ \A s \in Shelves : ValueOf(_shelf_votes[a].items, s) = VotesFor(a, s)
      /\ RecordsStored(a) = Cardinality(Completed)
      /\ a \in DOMAIN _shelves_by_album
      /\ \A s \in Shelves : VotesFor(a, s) <= VotesFor(a, _shelves_by_album[a])

AcquireLabels == {"v_acquire", "g_acquire", "k_acquire"}

\* C10 - No operation blocks indefinitely: under fair scheduling every call
\* of every thread eventually returns, and no thread asks for the
\* non-reentrant mutex while it holds it (a manual set_album_shelf included,
\* which calls vote_for_shelf).
C10_NoIndefiniteBlocking ==
  /\ \A t \in Threads : (pc[t] # "idle") ~> (pc[t] = "idle")
  /\ [](\A t \in Threads : pc[t] \in AcquireLabels => _lock # t)

\* C10 witness: the vote inside a manual set_album_shelf waits for the mutex
\* that another thread holds.
C10_Witness ==
  \E t \in Threads, u \in Threads :
    /\ t # u
    /\ pc[t] = "v_acquire"
    /\ frame[t].inner
    /\ _lock = u

\* C11 - The mutex is never held while a logging call executes: every
\* completed call that logged a warning (the conflict warning of
\* vote_for_shelf, the not-found warning of get_album_shelf) logged it after
\* releasing the lock.
C11_NoLogUnderLock ==
  \A x \in Completed : CallAt(x).log # NoLog => ~CallAt(x).log_locked

\* C12 - Idempotence of the query: a get_album_shelf call changes no map of
\* the resolver (state entries, vote records, counters, fallback winners),
\* also for an unknown album, and a get_album_shelf that directly follows a
\* get_album_shelf for the same album has the same outcome and the same
\* warning.
C12_QueryIdempotent ==
  [][called'.op = "get_album_shelf" =>
       /\ UNCHANGED data
       /\ (called = called' => (ret' = ret /\ logged' = logged))]_vars

\* C12 witness: a query for an album the resolver has never seen has been
\* answered (None, fallback) and no entry of the album exists.
C12_Witness ==
  \E a \in Albums :
    /\ called = Call("get_album_shelf", a, None)
    /\ ret = Returned(None, SHELF_SOURCE_FALLBACK)
    /\ logged = NotFound(a)
    /\ a \notin DOMAIN _shelf_state
    /\ a \notin DOMAIN _VOTES
    /\ a \notin DOMAIN _shelf_votes
    /\ a \notin DOMAIN _shelves_by_album

\* The weighted winner of album a, computed from its vote records alone:
\* the second tier of get_album_shelf.
WeightedWinner(a) ==
  IF module = "pkg"
  THEN Returned(_winner(Get(_VOTES, a, <<>>)), SHELF_SOURCE_VOTES)
  ELSE mgr_winner(Heap, a)

\* C13 - After a set_album_shelf(a, s, source = Manual) with a non-empty s
\* has returned, the weighted winner computed from a's vote records alone is
\* s, whatever votes and manual sets came before.
C13_ManualVoteDominates ==
  \A a \in Albums :
    (/\ called = Call("set_album_shelf", a, SHELF_SOURCE_MANUAL)
     /\ ret.exc = None
     /\ Truthy(Entry(a).shelf)) =>
      WeightedWinner(a) = Returned(Entry(a).shelf, SHELF_SOURCE_VOTES)

\* ============================================== votes only (SpecVotes)
\* Sequential runs of vote_for_shelf, get_album_shelf and clear_album on two
\* albums, with the weights the callers use when they weigh nothing: the
\* default 0.0 of manager.py's vote_for_shelf, and 1.
Albums2 == {"A1", "A2"}
VoteWeights == {0, 1}

InitVotes ==
  /\ module \in Modules
  /\ _shelf_state = EmptyDict
  /\ _VOTES = EmptyDict
  /\ _shelf_votes = EmptyDict
  /\ _shelves_by_album = EmptyDict
  /\ log_data = IF module = "mgr" THEN NamedTupleClass ELSE NoLog
  /\ called = Call("init", None, None)
  /\ ret = Returned(None, None)
  /\ logged = NoLog
  /\ hist = [a \in Albums2 |-> NoHist]
  /\ _lock = None
  /\ pc = [t \in Threads |-> "idle"]
  /\ frame = [t \in Threads |-> NoFrame]
  /\ done = [t \in Threads |-> <<>>]
  /\ file = NoFile
  /\ setting = NoSetting
  /\ singleton = NoSingleton
  /\ callback = NoCallback

NextVotes ==
  \/ \E a \in Albums2, s \in ShelfArgs, w \in VoteWeights :
       /\ IsBlank(s) \/ TotalVotes(_shelf_votes, Albums2) < MaxVotes
       /\ VoteForShelf(a, s, w)
  \/ \E a \in Albums2 : GetAlbumShelf(a)
  \/ \E a \in Albums2 : ClearAlbum(a)

SpecVotes == InitVotes /\ [][NextVotes]_vars

\* The votes of cast all carry one weight.
SameWeight(cast) ==
  \A i \in 1..Len(cast), j \in 1..Len(cast) : cast[i][2] = cast[j][2]
\* The number of votes of cast for shelf s.
CastCount(cast, s) == Cardinality({i \in 1..Len(cast) : cast[i][1] = s})

\* C14 - After vote_for_shelf calls on one album that all carry the same
\* weight, and with no manual state, get_album_shelf returns a shelf that
\* received the most votes, with the votes source.
C14_EqualWeightMajority ==
  \A a \in Albums2 :
    (/\ hist[a].cast # <<>>
     /\ SameWeight(hist[a].cast)
     /\ a \notin DOMAIN _shelf_state) =>
      /\ Resolved(a).exc = None
      /\ Resolved(a).source = SHELF_SOURCE_VOTES
      /\ Resolved(a).shelf \in CastShelves(hist[a].cast)
      /\ \A s \in CastShelves(hist[a].cast) :
           CastCount(hist[a].cast, s) <= CastCount(hist[a].cast, Resolved(a).shelf)

\* C15 - After every vote_for_shelf call of a sequential run, the stored
\* fallback candidate of the album is the shelf with the highest occurrence
\* count among the shelves voted for since the album's last clear_album,
\* the first voted for among those of equal highest count.
C15_FallbackIsFirstMostVoted ==
  \A a \in Albums :
    (called = Call("vote_for_shelf", a, None) /\ hist[a].counts # <<>>) =>
      /\ a \in DOMAIN _shelves_by_album
      /\ _shelves_by_album[a] = FirstMaxKey(hist[a].counts)

\* The occurrence count of shelf s under album a, and the number of vote
\* records stored for (a, s): manager.py stores no records, it writes the
\* fields of the last vote into the album's counter.
CounterOf(a, s) == ValueOf(Get(_shelf_votes, a, NewCounter).items, s)
RecordsFor(a, s) ==
  IF module = "pkg"
  THEN Cardinality({i \in 1..Len(Get(_VOTES, a, <<>>)) : _VOTES[a][i][1] = s})
  ELSE 0

\* C16 - In every state of a sequential run, for every album a and shelf s,
\* the occurrence counter of s under a equals the number of vote records
\* stored for (a, s), and both equal the number of votes with shelf s
\* applied to a since its last clear_album (a manual set_album_shelf counts
\* as one vote); the counter holds no keys other than voted shelf names.
C16_CounterMatchesRecords ==
  \A a \in Albums :
    /\ \A s \in Shelves :
         /\ CounterOf(a, s) = ValueOf(hist[a].counts, s)
         /\ RecordsFor(a, s) = ValueOf(hist[a].counts, s)
    /\ ~Get(_shelf_votes, a, NewCounter).junk

\* C17 - vote_for_shelf emits a conflict observation exactly when, after the
\* vote is applied, more than one distinct shelf has been voted for that
\* album; the observation carries the album's id, its vote distribution and
\* its current winner, and a vote that leaves its album with one distinct
\* shelf emits nothing, whatever happened to other albums before.
C17_ConflictObservation ==
  [][\A a \in Albums2 :
       (/\ called'.op = "vote_for_shelf"
        /\ called'.album = a
        /\ hist'[a] # hist[a]) =>
         logged' = IF Len(hist'[a].counts) > 1
                   THEN Conflict(a, hist'[a].counts, FirstMaxKey(hist'[a].counts))
                   ELSE NoLog]_vars

\* C18 - vote_for_shelf with an empty or whitespace-only shelf is a no-op:
\* such a call (it adds nothing to the callers' history) appends no vote
\* record, increments no counter, leaves the fallback winner, creates no
\* entry for the album, emits no conflict observation and returns normally.
C18_BlankVoteNoOp ==
  [][(called'.op = "vote_for_shelf" /\ hist' = hist) =>
       /\ UNCHANGED data
       /\ ret' = Returned(None, None)
       /\ logged' = NoLog]_vars

\* C18 witness: in the package every applied vote that leaves two distinct
\* shelves logs the conflict; here the last call was a vote on an album with
\* two distinct shelves and nothing was logged: the vote was blank.
C18_Witness ==
  \E a \in Albums :
    /\ module = "pkg"
    /\ called = Call("vote_for_shelf", a, None)
    /\ logged = NoLog
    /\ ret = Returned(None, None)
    /\ Len(hist[a].counts) > 1
    /\ Len(Get(_VOTES, a, <<>>)) = Len(hist[a].cast)


\* =========================================== the per-file processor (files)
\* The attributes of class ShelfUtils.
ShelfUtilsAttributes ==
  {"_determine_shelf_recursive", "validate_shelf_name", "is_likely_shelf_name",
   "get_known_shelves", "get_existing_dirs", "add_known_shelf",
   "remove_known_shelf", "get_shelf_from_path"}
\* The exceptions the processor's except clause catches.
CaughtInFileProcessor == {"KeyError", "AttributeError", "ValueError"}
\* log.error("Error in file processor: %s", e)
FileProcessorError(e) ==
  [kind |-> "error", album |-> None, votes |-> <<>>, winner |-> e]
\* ShelfManager().base_path: the property returns self.base_path, that is,
\* itself.
base_path == Raised("RecursionError")

\* What the processor leaves: the heap, the file, how it ended, what it logged.
FileOutcome(h, f, r, log) == [h |-> h, file |-> f, ret |-> r, log |-> log]
\* An exception raised inside the try block: caught and logged when the
\* except clause names it, propagated to the host otherwise.
FileRaised(h, f, e) ==
  IF e \in CaughtInFileProcessor
  THEN FileOutcome(h, f, Returned(None, None), FileProcessorError(e))
  ELSE FileOutcome(h, f, Raised(e), NoLog)

\* file_post_addition_to_track_processor(track, file): a file without
\* metadata or without an album id is left alone; for every other file the
\* expression ShelfUtils.get_shelf_name_from_path is evaluated first, and the
\* class has no such attribute, so the statements after it (the priorities,
\* the tag, set_album_shelf, vote_for_shelf) are not reached.
file_post_addition_to_track_processor(h, f) ==
  IF ~f.meta THEN FileOutcome(h, f, Returned(None, None), NoLog)
  ELSE IF ~Truthy(f.album) THEN FileOutcome(h, f, Returned(None, None), NoLog)
  ELSE IF "get_shelf_name_from_path" \notin ShelfUtilsAttributes
       THEN FileRaised(h, f, "AttributeError")
       ELSE FileRaised(h, f, base_path.exc)

\* The manual marker of a shelf tag, as the tests write it.
ManualTag(s) == s \o "; manual"
TagValues == {""} \cup Shelves \cup {ManualTag(s) : s \in Shelves}
\* The files the host hands in: a file without metadata has neither an album
\* id nor a tag.
Files ==
  {NoFile} \cup
  {f \in [meta : {TRUE}, album : Albums \cup {None}, shelf : TagValues,
         path : Shelves \cup {None}, explicit : BOOLEAN] :
     f.explicit => f.path # None}

\* The settings of the runs with files: none, and the workflow of the tests.
FileSettings ==
  {NoSetting,
   [keys |-> {"enabled", "stage1", "stage2", "includes"}, enabled |-> TRUE,
    stage1 |-> {"Incoming"}, stage2 |-> <<"Standard">>, includes |-> FALSE]}

InitFiles ==
  /\ module = "mgr"
  /\ _shelf_state = EmptyDict
  /\ _VOTES = EmptyDict
  /\ _shelf_votes = EmptyDict
  /\ _shelves_by_album = EmptyDict
  /\ log_data = NamedTupleClass
  /\ called = Call("init", None, None)
  /\ ret = Returned(None, None)
  /\ logged = NoLog
  /\ hist = [a \in Albums |-> NoHist]
  /\ _lock = None
  /\ pc = [t \in Threads |-> "idle"]
  /\ frame = [t \in Threads |-> NoFrame]
  /\ done = [t \in Threads |-> <<>>]
  /\ file = NoFile
  /\ setting \in FileSettings
  /\ singleton = NoSingleton
  /\ callback = NoCallback

\* The host loads a file and matches it to a track.
LoadFile(f) ==
  /\ file' = f
  /\ called' = Call("load", f.album, None)
  /\ ret' = Returned(None, None)
  /\ logged' = NoLog
  /\ UNCHANGED <<module, setting, singleton, callback, data, hist, tvars>>

\* The host runs the processor on the file it loaded.
FilePostAdditionToTrack ==
  /\ called.op = "load"
  /\ LET out == file_post_addition_to_track_processor(Heap, file)
     IN  /\ _shelf_state' = out.h.st
         /\ _VOTES' = out.h.vl
         /\ _shelf_votes' = out.h.sv
         /\ _shelves_by_album' = out.h.sba
         /\ log_data' = out.h.ld
         /\ file' = out.file
         /\ ret' = out.ret
         /\ logged' = out.log
  /\ called' = Call("file_post_addition_to_track_processor", file.album, None)
  /\ UNCHANGED <<module, setting, singleton, callback, hist, tvars>>

NextFiles ==
  \/ \E f \in Files : LoadFile(f)
  \/ FilePostAdditionToTrack
  \/ \E a \in Albums, s \in Shelves : VoteForShelf(a, s, 1)
  \/ \E a \in Albums : GetAlbumShelf(a)
  \/ \E a \in Albums : ClearAlbum(a)

SpecFiles == InitFiles /\ [][NextFiles]_vars

\* The shelf a tag names when it carries the manual marker, None otherwise.
ManualShelfOf(tag) ==
  IF \E s \in Shelves : tag = ManualTag(s)
  THEN CHOOSE s \in Shelves : tag = ManualTag(s)
  ELSE None

\* C19 - physical location wins: when the processor has run on a file with
\* metadata and an album id whose path names a shelf explicitly, the file's shelf
\* tag is exactly that shelf, whatever manual tag it carried, and the album
\* is persisted with that shelf as a manual, locked entry.
C19_PhysicalLocationWins ==
  [][(/\ called'.op = "file_post_addition_to_track_processor"
      /\ file.meta /\ Truthy(file.album) /\ file.explicit) =>
       /\ ret'.exc = None
       /\ file'.shelf = file.path
       /\ file.album \in DOMAIN _shelf_state'
       /\ _shelf_state'[file.album] =
            [shelf |-> file.path, source |-> SHELF_SOURCE_MANUAL,
             locked |-> TRUE]]_vars

\* C20 - persisted manual tag wins: when the processor has run on a file with
\* metadata and an album id whose path names no shelf explicitly and whose shelf
\* tag carries the manual marker, the file's tag is the same as before and
\* the album is persisted with the tag's shelf as a manual, locked entry.
C20_ManualTagWins ==
  [][(/\ called'.op = "file_post_addition_to_track_processor"
      /\ file.meta /\ Truthy(file.album) /\ ~file.explicit
      /\ ManualShelfOf(file.shelf) # None) =>
       /\ ret'.exc = None
       /\ file'.shelf = file.shelf
       /\ file.album \in DOMAIN _shelf_state'
       /\ _shelf_state'[file.album] =
            [shelf |-> ManualShelfOf(file.shelf),
             source |-> SHELF_SOURCE_MANUAL, locked |-> TRUE]]_vars


\* ================================================== the workflow transition
\* The configuration keys that class ShelfConstants defines.
ShelfConstantsKeys ==
  {"CONFIG_SHELVES_KEY", "CONFIG_ALBUM_SHELF_KEY", "CONFIG_WORKFLOW_STAGE_1_KEY",
   "CONFIG_WORKFLOW_STAGE_2_KEY", "CONFIG_WORKFLOW_ENABLED_KEY",
   "CONFIG_RENAME_SNIPPET_SKELETON_KEY", "CONFIG_ACTIVE_TAB"}
\* The keys the transition reads after the enabled flag.
StageKeys ==
  {"CONFIG_WORKFLOW_STAGE_1_SHELVES_KEY", "CONFIG_WORKFLOW_STAGE_2_SHELVES_KEY",
   "CONFIG_STAGE_1_INCLUDES_NON_SHELVES_KEY"}

\* _apply_workflow_transition(shelf) - as is: an empty shelf, a missing
\* enabled flag (KeyError, caught) and a disabled workflow return the shelf;
\* with the workflow enabled the names of the stage keys are looked up in
\* ShelfConstants: an undefined one raises AttributeError, a key that the
\* settings do not hold KeyError, both caught, and the shelf is returned;
\* otherwise the shelf moves to the first stage-2 shelf when it is in stage 1
\* or stage 1 includes non-shelves, and stage 2 is not empty and differs.
\* The variant that returns nothing from the except clauses.
_apply_workflow_transition_dropping(cfg, shelf) ==
  IF ~Truthy(shelf) THEN Returned(shelf, None)
  ELSE IF "enabled" \notin cfg.keys THEN Returned(None, None)
  ELSE IF ~cfg.enabled THEN Returned(shelf, None)
  ELSE Returned(None, None)
\* The variant without the except clause for KeyError.
_apply_workflow_transition_uncaught(cfg, shelf) ==
  IF ~Truthy(shelf) THEN Returned(shelf, None)
  ELSE IF "enabled" \notin cfg.keys THEN Raised("KeyError")
  ELSE IF ~cfg.enabled THEN Returned(shelf, None)
  ELSE Returned(shelf, None)
_apply_workflow_transition(cfg, shelf) ==
  IF ~Truthy(shelf) THEN Returned(shelf, None)
  ELSE IF "enabled" \notin cfg.keys THEN Returned(shelf, None)
  ELSE IF ~cfg.enabled THEN Returned(shelf, None)
  ELSE IF ~(StageKeys \subseteq ShelfConstantsKeys) THEN Returned(shelf, None)
  ELSE IF ~({"stage1", "stage2", "includes"} \subseteq cfg.keys)
       THEN Returned(shelf, None)
  ELSE IF /\ (shelf \in cfg.stage1 \/ cfg.includes)
          /\ cfg.stage2 # <<>>
          /\ shelf # cfg.stage2[1]
       THEN Returned(cfg.stage2[1], None)
       ELSE Returned(shelf, None)

\* The occurrences counted for shelf s of album a in the counters sv.
Occurrences(sv, a, s) == ValueOf(Get(sv, a, NewCounter).items, s)

\* C21 - default per-file resolution: when the processor has run on a file
\* with metadata and an album id whose path candidate is not explicit and
\* whose tag carries no manual marker, one vote has been recorded for the
\* transition of the path candidate, and the album's entry has not become a
\* manual or locked one.
C21_DefaultResolution ==
  [][(/\ called'.op = "file_post_addition_to_track_processor"
      /\ file.meta /\ Truthy(file.album)
      /\ ~file.explicit /\ file.path # None
      /\ ManualShelfOf(file.shelf) = None) =>
       LET t == _apply_workflow_transition(setting, file.path).shelf
       IN  /\ ret'.exc = None
           /\ Occurrences(_shelf_votes', file.album, t)
                = Occurrences(_shelf_votes, file.album, t) + 1
           /\ Get(_shelf_state', file.album, EmptyState).source
                # SHELF_SOURCE_MANUAL
           /\ ~Get(_shelf_state', file.album, EmptyState).locked]_vars


\* ------------------------------------- runs of the transition (SpecWorkflow)
WORKFLOW_STAGE_1_WILDCARD == "*"
WorkflowKeys == {"enabled", "stage1", "stage2", "includes"}
\* The settings of the runs: any subset of the workflow keys, stage 1 a set
\* of shelves with or without the wildcard, stage 2 a list of shelves.
Settings ==
  [keys : SUBSET WorkflowKeys, enabled : BOOLEAN,
   stage1 : SUBSET (Shelves \cup {WORKFLOW_STAGE_1_WILDCARD}),
   stage2 : {<<>>, <<"Standard">>, <<"Incoming">>, <<"Standard", "Incoming">>},
   includes : BOOLEAN]
\* The shelves handed to the transition: none, empty, known and unknown ones.
TransitionArgs == {None, "", "Misc"} \cup Shelves

InitWorkflow ==
  /\ module = "mgr"
  /\ _shelf_state = EmptyDict
  /\ _VOTES = EmptyDict
  /\ _shelf_votes = EmptyDict
  /\ _shelves_by_album = EmptyDict
  /\ log_data = NamedTupleClass
  /\ called = Call("init", None, None)
  /\ ret = Returned(None, None)
  /\ logged = NoLog
  /\ hist = [a \in Albums |-> NoHist]
  /\ _lock = None
  /\ pc = [t \in Threads |-> "idle"]
  /\ frame = [t \in Threads |-> NoFrame]
  /\ done = [t \in Threads |-> <<>>]
  /\ file = NoFile
  /\ setting \in Settings
  /\ singleton = NoSingleton
  /\ callback = NoCallback

ApplyWorkflowTransition(shelf) ==
  /\ ret' = _apply_workflow_transition(setting, shelf)
  /\ called' = [op |-> "_apply_workflow_transition", shelf |-> shelf]
  /\ logged' = NoLog
  /\ UNCHANGED <<module, host, data, hist, tvars>>

NextWorkflow == \E shelf \in TransitionArgs : ApplyWorkflowTransition(shelf)

SpecWorkflow == InitWorkflow /\ [][NextWorkflow]_vars

\* The last call was the transition of shelf s.
Transitioned(s) == called = [op |-> "_apply_workflow_transition", shelf |-> s]
\* The settings hold a whole workflow rule and the workflow is enabled.
RuleEnabled == setting.keys = WorkflowKeys /\ setting.enabled

\* C22 - transition eligibility: with the workflow enabled, a non-empty
\* stage 2 and a shelf that differs from the first stage-2 shelf, the
\* transition returns that stage-2 shelf if the shelf is in stage 1, or
\* stage 1 includes non-shelves, or stage 1 holds the wildcard, and returns
\* the shelf unchanged in every other case.
C22_TransitionEligibility ==
  \A s \in TransitionArgs :
    (/\ Transitioned(s) /\ Truthy(s)
     /\ RuleEnabled
     /\ setting.stage2 # <<>>
     /\ s # setting.stage2[1]) =>
       ret = IF \/ s \in setting.stage1
                \/ setting.includes
                \/ WORKFLOW_STAGE_1_WILDCARD \in setting.stage1
             THEN Returned(setting.stage2[1], None)
             ELSE Returned(s, None)

\* C23 - no-op on equal stages: the transition of a shelf that is the
\* stage-2 shelf of the settings returns that shelf, whatever stage 1, the
\* wildcard and the non-shelves flag are.
C23_NoSelfTransition ==
  \A s \in TransitionArgs :
    (/\ Transitioned(s)
     /\ "stage2" \in setting.keys
     /\ setting.stage2 # <<>>
     /\ setting.stage2[1] = s) => ret = Returned(s, None)

\* C23 witness: an enabled rule whose stage 1 holds the wildcard and the
\* shelf itself and includes non-shelves, and the transition of its stage-2
\* shelf has returned.
C23_Witness ==
  \E s \in Shelves :
    /\ Transitioned(s)
    /\ RuleEnabled
    /\ setting.stage2 = <<s>>
    /\ s \in setting.stage1
    /\ WORKFLOW_STAGE_1_WILDCARD \in setting.stage1
    /\ setting.includes
    /\ ret = Returned(s, None)

\* C24 - the transition returns its input, and does not raise, whenever the
\* shelf is empty, the workflow is disabled, or one of the workflow keys
\* (enabled, stage 1, stage 2, includes) is missing from the settings.
C24_TransitionSkipped ==
  \A s \in TransitionArgs :
    (/\ Transitioned(s)
     /\ \/ ~Truthy(s)
        \/ ("enabled" \in setting.keys /\ ~setting.enabled)
        \/ setting.keys # WorkflowKeys) => ret = Returned(s, None)

\* C24 witness: the workflow is enabled, the stage-2 key is missing and the
\* transition of a stage-1 shelf has returned that shelf.
C24_Witness ==
  \E s \in Shelves :
    /\ Transitioned(s)
    /\ setting.keys = WorkflowKeys \ {"stage2"}
    /\ setting.enabled
    /\ s \in setting.stage1
    /\ ret = Returned(s, None)


\* ================================================================ the names
\* A name is a string: the sequence of its characters.
MaxPieces == 3
MAX_SHELF_NAME_LENGTH == 30
MAX_WORD_COUNT == 3
INVALID_PATH_CHARS == <<"<", ">", ":", "\"", "|", "?", "*">>
ALBUM_INDICATORS ==
  << <<"V", "o", "l", ".">>, <<"V", "o", "l", "u", "m", "e">>,
     <<"D", "i", "s", "c">>, <<"C", "D">>, <<"P", "a", "r", "t">> >>
\* DEFAULT_SHELVES.values()
DEFAULT_SHELVES ==
  {<<"I", "n", "c", "o", "m", "i", "n", "g">>,
   <<"S", "t", "a", "n", "d", "a", "r", "d">>}

Chars(n) == {n[i] : i \in 1..Len(n)}
\* sub in n
Contains(n, sub) ==
  \E i \in 0..(Len(n) - Len(sub)) : SubSeq(n, i + 1, i + Len(sub)) = sub
IsSpace(c) == c = " "
RECURSIVE lstrip(_)
lstrip(n) ==
  IF n = <<>> THEN n ELSE IF IsSpace(Head(n)) THEN lstrip(Tail(n)) ELSE n
RECURSIVE rstrip(_)
rstrip(n) ==
  IF n = <<>> THEN n
  ELSE IF IsSpace(n[Len(n)]) THEN rstrip(SubSeq(n, 1, Len(n) - 1)) ELSE n
\* name.strip()
strip(n) == rstrip(lstrip(n))
\* len(n.split()): the words of n are its maximal runs without whitespace.
WordCount(n) ==
  Cardinality({i \in 1..Len(n) :
                 ~IsSpace(n[i]) /\ (i = 1 \/ IsSpace(n[i - 1]))})
\* n.startswith(".") or n.endswith(".")
DotAtAnEnd(n) == n # <<>> /\ (n[1] = "." \/ n[Len(n)] = ".")

\* A message: its kind stands for the text, chars, count, names and reasons
\* for what the text is formatted with. NoMessage is None, EmptyMessage "".
Message(kind, chars, count, names, reasons) ==
  [kind |-> kind, chars |-> chars, count |-> count, names |-> names,
   reasons |-> reasons]
Text(kind) == Message(kind, <<>>, 0, <<>>, <<>>)
NoMessage == Text("None")
EmptyMessage == Text("")
\* What a check returns: (is_valid, message, is_error_message).
Checked(valid, message) == [valid |-> valid, message |-> message]
\* What validate_shelf_name and is_likely_shelf_name return.
Verdict(valid, message) == [exc |-> None, valid |-> valid, message |-> message]

check_reserved_names(n) ==
  IF n \in {<<".">>, <<".", ".">>}
  THEN Checked(FALSE, Text("reserved")) ELSE Checked(TRUE, NoMessage)
check_invalid_chars(n) ==
  LET invalid == SelectSeq(INVALID_PATH_CHARS, LAMBDA c : c \in Chars(n))
  IN  IF invalid # <<>>
      THEN Checked(FALSE, Message("invalid characters", invalid, 0, <<>>, <<>>))
      ELSE Checked(TRUE, NoMessage)
check_length(n) ==
  IF Len(n) > MAX_SHELF_NAME_LENGTH
  THEN Checked(FALSE, Message("too long", <<>>, Len(n), <<>>, <<>>))
  ELSE Checked(TRUE, NoMessage)
check_word_count(n) ==
  IF WordCount(n) > MAX_WORD_COUNT
  THEN Checked(FALSE, Message("too many words", <<>>, WordCount(n), <<>>, <<>>))
  ELSE Checked(TRUE, NoMessage)
\* found_indicators gets the name itself once for every indicator in it.
check_album_indicators(n) ==
  LET found == SelectSeq(ALBUM_INDICATORS, LAMBDA ind : Contains(n, ind))
      found_indicators == [i \in 1..Len(found) |-> n]
  IN  IF found_indicators # <<>>
      THEN Checked(FALSE,
                   Message("album indicator", <<>>, 0, found_indicators, <<>>))
      ELSE Checked(TRUE, NoMessage)
check_dots(n) ==
  IF DotAtAnEnd(n)
  THEN Checked(TRUE, Text("warning: dots")) ELSE Checked(TRUE, NoMessage)

\* The variant that checks the length before the invalid characters.
validation_functions_length_first(n) ==
  <<check_reserved_names(n), check_length(n), check_invalid_chars(n),
    check_word_count(n), check_album_indicators(n), check_dots(n)>>
\* The checks of validation_functions, applied to the stripped name.
validation_functions(n) ==
  <<check_reserved_names(n), check_invalid_chars(n), check_length(n),
    check_word_count(n), check_album_indicators(n), check_dots(n)>>

\* for func in validation_functions: the first check that fails returns its
\* message; a message of a passing check becomes the warning.
RECURSIVE RunChecks(_, _)
RunChecks(checks, warning_message) ==
  IF checks = <<>> THEN Verdict(TRUE, warning_message)
  ELSE LET c == Head(checks)
       IN  IF ~c.valid THEN Verdict(FALSE, c.message)
           ELSE RunChecks(Tail(checks),
                          IF c.message # NoMessage THEN c.message
                          ELSE warning_message)

validate_shelf_name(name) ==
  LET stripped_name == strip(name)
  IN  IF stripped_name = <<>> THEN Verdict(FALSE, Text("empty"))
      ELSE RunChecks(validation_functions(stripped_name), EmptyMessage)

\* The heuristics of is_likely_shelf_name, each with what its reason shows.
Reason(kind, count) == [kind |-> kind, count |-> count]
suspicious_reasons(name) ==
  (IF Contains(name, <<" ", "-", " ">>) THEN <<Reason("contains ' - '", 0)>>
   ELSE <<>>)
  \o (IF Len(name) > MAX_SHELF_NAME_LENGTH
      THEN <<Reason("too long", Len(name))>> ELSE <<>>)
  \o (IF WordCount(name) > MAX_WORD_COUNT
      THEN <<Reason("too many words", WordCount(name))>> ELSE <<>>)
  \o (IF \E i \in 1..Len(ALBUM_INDICATORS) : Contains(name, ALBUM_INDICATORS[i])
      THEN <<Reason("album indicator", 0)>> ELSE <<>>)

\* The variant that tests the heuristics before the known shelves.
is_likely_shelf_name_heuristics_first(impl, name, known_shelves) ==
  IF name = <<>> THEN Verdict(FALSE, Text("Empty name"))
  ELSE IF suspicious_reasons(name) # <<>>
       THEN Verdict(FALSE, Message("reasons", <<>>, 0, <<>>,
                                   suspicious_reasons(name)))
  ELSE Verdict(TRUE, NoMessage)
\* The variant that reports the first reason only.
is_likely_shelf_name_first_reason(impl, name, known_shelves) ==
  IF name = <<>> THEN Verdict(FALSE, Text("Empty name"))
  ELSE IF name \in known_shelves THEN Verdict(TRUE, NoMessage)
  ELSE IF suspicious_reasons(name) # <<>>
       THEN Verdict(FALSE, Message("reasons", <<>>, 0, <<>>,
                                   <<Head(suspicious_reasons(name))>>))
  ELSE Verdict(TRUE, NoMessage)
\* is_likely_shelf_name(name, known_shelves) of ShelfUtils (impl "utils",
\* which lets the default shelves pass first) and of ShelfManager (impl
\* "manager"): the reasons are joined with "; ".
is_likely_shelf_name(impl, name, known_shelves) ==
  IF name = <<>> THEN Verdict(FALSE, Text("Empty name"))
  ELSE IF impl = "utils" /\ name \in DEFAULT_SHELVES
       THEN Verdict(TRUE, NoMessage)
  ELSE IF name \in known_shelves THEN Verdict(TRUE, NoMessage)
  ELSE IF suspicious_reasons(name) # <<>>
       THEN Verdict(FALSE, Message("reasons", <<>>, 0, <<>>,
                                   suspicious_reasons(name)))
  ELSE Verdict(TRUE, NoMessage)


\* ------------------------------------------- runs of the checks (SpecNames)
\* The names are built from at most MaxPieces pieces: plain, blank, dotted
\* and invalid characters, a slash, an album indicator, a dash between
\* blanks, two words, and a run of letters two short of the maximal length.
Pad == [i \in 1..(MAX_SHELF_NAME_LENGTH - 2) |-> "a"]
Pieces ==
  {<<"a">>, <<" ">>, <<".">>, <<"<">>, <<":">>, <<"/">>, <<"C", "D">>,
   <<" ", "-", " ">>, <<"a", " ", "a", " ">>, Pad}
\* The names of at most k pieces.
RECURSIVE NamesOf(_)
NamesOf(k) ==
  IF k = 0 THEN {<<>>}
  ELSE LET shorter == NamesOf(k - 1)
       IN  shorter \cup {n \o p : n \in shorter, p \in Pieces}
\* A name to check, with the known shelves: none, the name itself, another.
Input(n, known) == [op |-> "input", impl |-> None, name |-> n, known |-> known]
InputsOf(names) ==
  {Input(x[1], IF x[2] = "self" THEN {x[1]}
               ELSE IF x[2] = "other" THEN {<<"a">>} ELSE {}) :
     x \in names \X {"none", "self", "other"}}

InitNames ==
  /\ module = "mgr"
  /\ _shelf_state = EmptyDict
  /\ _VOTES = EmptyDict
  /\ _shelf_votes = EmptyDict
  /\ _shelves_by_album = EmptyDict
  /\ log_data = NamedTupleClass
  /\ called \in InputsOf(NamesOf(MaxPieces))
  /\ ret = Returned(None, None)
  /\ logged = NoLog
  /\ hist = [a \in Albums |-> NoHist]
  /\ _lock = None
  /\ pc = [t \in Threads |-> "idle"]
  /\ frame = [t \in Threads |-> NoFrame]
  /\ done = [t \in Threads |-> <<>>]
  /\ file = NoFile
  /\ setting = NoSetting
  /\ singleton = NoSingleton
  /\ callback = NoCallback

ValidateShelfName ==
  /\ ret' = validate_shelf_name(called.name)
  /\ called' = [called EXCEPT !.op = "validate_shelf_name", !.impl = None]
  /\ UNCHANGED <<module, host, data, logged, hist, tvars>>

IsLikelyShelfName(impl) ==
  /\ ret' = is_likely_shelf_name(impl, called.name, called.known)
  /\ called' = [called EXCEPT !.op = "is_likely_shelf_name", !.impl = impl]
  /\ UNCHANGED <<module, host, data, logged, hist, tvars>>

NextNames ==
  \/ ValidateShelfName
  \/ \E impl \in {"utils", "manager"} : IsLikelyShelfName(impl)

SpecNames == InitNames /\ [][NextNames]_vars

HasAlbumIndicator(n) ==
  \E i \in 1..Len(ALBUM_INDICATORS) : Contains(n, ALBUM_INDICATORS[i])
\* The first rule of validate_shelf_name that the stripped name n fails, in
\* the order of the rules; "none" when it passes them all.
FirstFailure(n) ==
  IF n = <<>> THEN "empty"
  ELSE IF n \in {<<".">>, <<".", ".">>} THEN "reserved"
  ELSE IF \E i \in 1..Len(INVALID_PATH_CHARS) : INVALID_PATH_CHARS[i] \in Chars(n)
       THEN "invalid characters"
  ELSE IF Len(n) > MAX_SHELF_NAME_LENGTH THEN "too long"
  ELSE IF WordCount(n) > MAX_WORD_COUNT THEN "too many words"
  ELSE IF HasAlbumIndicator(n) THEN "album indicator"
  ELSE "none"

\* C25 - validate_shelf_name applies its rules in the order empty, reserved,
\* invalid characters, length over 30, more than 3 words, album indicator,
\* and a name that fails one or several of them is invalid with the message
\* of the earliest rule it fails.
C25_FirstFailureWins ==
  (called.op = "validate_shelf_name"
   /\ FirstFailure(strip(called.name)) # "none") =>
     /\ ret.valid = FALSE
     /\ ret.message.kind = FirstFailure(strip(called.name))

\* C25 witness: a name with an invalid character, more than 30 characters
\* and an album indicator has been reported for its invalid character.
C25_Witness ==
  /\ called.op = "validate_shelf_name"
  /\ Len(strip(called.name)) > MAX_SHELF_NAME_LENGTH
  /\ HasAlbumIndicator(called.name)
  /\ ret.valid = FALSE
  /\ ret.message.kind = "invalid characters"

\* C26 - validate_shelf_name rejects every non-empty, non-reserved name that
\* contains one of the characters < > | : * ? " / \ ' and its message lists
\* the offending characters.
C26_InvalidCharsRejected ==
  LET n == strip(called.name)
      offending == Chars(n) \cap
                     {"<", ">", "|", ":", "*", "?", "\"", "/", "\\", "'"}
  IN  (/\ called.op = "validate_shelf_name"
       /\ n # <<>> /\ n \notin {<<".">>, <<".", ".">>}
       /\ offending # {}) =>
         /\ ret.valid = FALSE
         /\ ret.message.kind = "invalid characters"
         /\ Chars(ret.message.chars) = offending

\* C27 - a name that passes the six rules is valid: with the warning when it
\* starts or ends with a dot and with no message (None) otherwise; and
\* validate_shelf_name returns, without raising, one of (false, reason),
\* (true, warning), (true, None) for every name.
C27_ValidShapes ==
  called.op = "validate_shelf_name" =>
    /\ ret.exc = None
    /\ \/ ~ret.valid /\ ret.message.kind \notin {"None", "", "warning: dots"}
       \/ ret.valid /\ ret.message = Text("warning: dots")
       \/ ret.valid /\ ret.message = NoMessage
    /\ FirstFailure(strip(called.name)) = "none" =>
         /\ ret.valid
         /\ ret.message = IF DotAtAnEnd(strip(called.name))
                          THEN Text("warning: dots") ELSE NoMessage

\* C28 - is_likely_shelf_name returns (true, None) for every non-empty name
\* that is among the known shelves, whatever heuristics the name triggers.
C28_KnownIsLikely ==
  (/\ called.op = "is_likely_shelf_name"
   /\ called.name # <<>>
   /\ called.name \in called.known) => ret = Verdict(TRUE, NoMessage)

\* C28 witness: a known shelf with a dash between blanks and an album
\* indicator has been found likely by the manager.
C28_Witness ==
  /\ called.op = "is_likely_shelf_name"
  /\ called.impl = "manager"
  /\ called.name \in called.known
  /\ Contains(called.name, <<" ", "-", " ">>)
  /\ HasAlbumIndicator(called.name)
  /\ ret = Verdict(TRUE, NoMessage)

\* C29 - for a non-empty name that is not among the known shelves,
\* is_likely_shelf_name returns false exactly when one of the heuristics
\* triggers (a dash between blanks, more than 30 characters, more than 3
\* words, an album indicator), with a reason that names every triggered
\* heuristic in that order, and (true, None) when none triggers.
C29_AllReasonsJoined ==
  LET triggered(k) ==
        CASE k = "contains ' - '" -> Contains(called.name, <<" ", "-", " ">>)
          [] k = "too long" -> Len(called.name) > MAX_SHELF_NAME_LENGTH
          [] k = "too many words" -> WordCount(called.name) > MAX_WORD_COUNT
          [] k = "album indicator" -> HasAlbumIndicator(called.name)
      expected ==
        SelectSeq(<<"contains ' - '", "too long", "too many words",
                    "album indicator">>, triggered)
  IN  (/\ called.op = "is_likely_shelf_name"
       /\ called.name # <<>>
       /\ called.name \notin called.known) =>
         IF expected = <<>> THEN ret = Verdict(TRUE, NoMessage)
         ELSE /\ ret.valid = FALSE
              /\ Len(ret.message.reasons) = Len(expected)
              /\ \A i \in 1..Len(expected) :
                   ret.message.reasons[i].kind = expected[i]

\* C29 witness: an unknown name that is too long and has too many words has
\* been found unlikely by ShelfUtils for both reasons.
C29_Witness ==
  /\ called.op = "is_likely_shelf_name"
  /\ called.impl = "utils"
  /\ called.name \notin called.known
  /\ ret.valid = FALSE
  /\ Len(ret.message.reasons) = 2
  /\ ret.message.reasons[1].kind = "too long"
  /\ ret.message.reasons[2].kind = "too many words"


\* ================================================================ the paths
\* A path is absolute and normalised: the sequence of its components, each a
\* name; Path(...).resolve() leaves such a path as it is.
MaxDepth == 3
INCOMING == <<"I", "n", "c", "o", "m", "i", "n", "g">>
STANDARD == <<"S", "t", "a", "n", "d", "a", "r", "d">>
\* base is a prefix of path: path_obj.relative_to(base_obj) does not raise.
IsUnder(path, base) ==
  Len(base) <= Len(path) /\ SubSeq(path, 1, Len(base)) = base
\* relative.parts
RelativeParts(path, base) == SubSeq(path, Len(base) + 1, Len(path))
\* path_obj.name: the last component ("" for the root).
PathName(path) == IF path = <<>> THEN <<>> ELSE path[Len(path)]
\* What get_shelf_from_path returns: a shelf name, or an exception.
Shelf(name) == [exc |-> None, returned |-> <<name>>]
PathRaised(e) == [exc |-> e, returned |-> <<>>]

\* _determine_shelf_recursive(path, known_shelves, base_path): the stage
\* values are read from the settings first, outside of the try block; a path
\* that is not under the base gives the stage-1 value, a file directly in
\* the base and an unlikely first component the stage-2 value.
_determine_shelf_recursive(cfg, path, known_shelves, base) ==
  IF "shelves_workflow_stage_1" \notin cfg.keys THEN PathRaised("KeyError")
  ELSE IF "shelves_workflow_stage_2" \notin cfg.keys THEN PathRaised("KeyError")
  ELSE IF ~IsUnder(path, base) THEN Shelf(cfg.workflow_stage_1)
  ELSE LET parts == RelativeParts(path, base)
       IN  IF parts = <<>> \/ parts[1] = PathName(path)
           THEN Shelf(cfg.workflow_stage_2)
           ELSE IF ~is_likely_shelf_name("utils", parts[1], known_shelves).valid
                THEN Shelf(cfg.workflow_stage_2)
                ELSE Shelf(parts[1])

\* get_shelf_from_path(path, known_shelves, base_path=None), base standing
\* for base_path (<<>> for None): without it the setting move_files_to is used; when that is missing the stage-1
\* value is returned.
get_shelf_from_path(cfg, path, known_shelves, base) ==
  IF base = <<>>
  THEN IF "move_files_to" \notin cfg.keys
       THEN IF "shelves_workflow_stage_1" \notin cfg.keys
            THEN PathRaised("KeyError")
            ELSE Shelf(cfg.workflow_stage_1)
       ELSE _determine_shelf_recursive(cfg, path, known_shelves,
                                       cfg.move_files_to)
  ELSE _determine_shelf_recursive(cfg, path, known_shelves, base[1])

\* ------------------------------------------ runs of the paths (SpecPaths)
MusicDir == << <<"m">> >>
Components == {<<"a">>, <<"b">>, <<"a", " ", "-", " ", "a">>, <<"t">>}
\* The paths: under the music directory or under another root, with up to
\* MaxDepth components below it.
Paths ==
  {root \o rest : root \in {MusicDir, << <<"o">> >>},
                  rest \in UNION {[1..k -> Components] : k \in 0..MaxDepth}}
\* config.setting for the paths: the keys it holds and their values.
PathSettings ==
  [keys : SUBSET {"shelves_workflow_stage_1", "shelves_workflow_stage_2",
                  "move_files_to"},
   workflow_stage_1 : {INCOMING}, workflow_stage_2 : {STANDARD},
   move_files_to : {MusicDir}]
\* base_path: <<>> stands for None, <<b>> for the base path b.
PathInputs ==
  [op : {"input"}, path : Paths,
   known : {{}, {<<"a", " ", "-", " ", "a">>}},
   base_path : {<<>>, <<MusicDir>>}]

InitPaths ==
  /\ module = "mgr"
  /\ _shelf_state = EmptyDict
  /\ _VOTES = EmptyDict
  /\ _shelf_votes = EmptyDict
  /\ _shelves_by_album = EmptyDict
  /\ log_data = NamedTupleClass
  /\ called \in PathInputs
  /\ ret = Returned(None, None)
  /\ logged = NoLog
  /\ hist = [a \in Albums |-> NoHist]
  /\ _lock = None
  /\ pc = [t \in Threads |-> "idle"]
  /\ frame = [t \in Threads |-> NoFrame]
  /\ done = [t \in Threads |-> <<>>]
  /\ file = NoFile
  /\ setting \in PathSettings
  /\ singleton = NoSingleton
  /\ callback = NoCallback

GetShelfFromPath ==
  /\ called.op = "input"
  /\ ret' = get_shelf_from_path(setting, called.path, called.known,
                                called.base_path)
  /\ called' = [called EXCEPT !.op = "get_shelf_from_path"]
  /\ UNCHANGED <<module, host, data, logged, hist, tvars>>

NextPaths == GetShelfFromPath

SpecPaths == InitPaths /\ [][NextPaths]_vars

\* The base path the call used.
BaseOf(c) == IF c.base_path = <<>> THEN setting.move_files_to ELSE c.base_path[1]

\* C30 - path classification yields no shelf candidate when the path is not
\* under the base path and when the file lies directly in the base path,
\* with no directory in between.
C30_NoCandidate ==
  (/\ called.op = "get_shelf_from_path"
   /\ (called.base_path # <<>> \/ "move_files_to" \in setting.keys)
   /\ \/ ~IsUnder(called.path, BaseOf(called))
      \/ Len(RelativeParts(called.path, BaseOf(called))) = 1) =>
     /\ ret.exc = None
     /\ ret.returned = <<>>

\* C31 - for a path under the base path with at least one directory between
\* the base and the file, the first component under the base is returned as
\* the shelf exactly when is_likely_shelf_name accepts it, whatever the
\* deeper directories and the file are called (a file named like the first
\* directory included).  Stated for settings that hold both stage keys.
C31_FirstComponentIsCandidate ==
  (/\ called.op = "get_shelf_from_path"
   /\ (called.base_path # <<>> \/ "move_files_to" \in setting.keys)
   /\ {"shelves_workflow_stage_1", "shelves_workflow_stage_2"}
         \subseteq setting.keys
   /\ IsUnder(called.path, BaseOf(called))
   /\ Len(RelativeParts(called.path, BaseOf(called))) >= 2) =>
     LET candidate == RelativeParts(called.path, BaseOf(called))[1]
     IN  /\ ret.exc = None
         /\ ret.returned = <<candidate>>
              <=> is_likely_shelf_name("utils", candidate, called.known).valid

\* ================================== the track metadata processor (metadata)
\* The attributes of class ShelfConstants.
ShelfConstantsAttributes ==
  ShelfConstantsKeys \cup
  {"MUSICBRAINZ_ALBUMID", "TAG_KEY", "BACKUP_TAG_KEY", "DEFAULT_SHELF",
   "DEFAULT_INCOMING_SHELF", "MAX_SHELF_NAME_LENGTH", "MAX_WORD_COUNT",
   "INVALID_PATH_CHARS", "PRIMARY_RELEASE_TYPES", "SECONDARY_RELEASE_TYPES",
   "WORKFLOW_STAGE_1_PLACEHOLDER", "WORKFLOW_STAGE_2_PLACEHOLDER",
   "ALBUM_INDICATORS", "WORKFLOW_STAGE_1_WILDCARD", "SHELF_SOURCE_MANUAL",
   "SHELF_SOURCE_VOTES", "SHELF_SOURCE_FALLBACK"}

\* set_shelf_in_metadata(_album, metadata, _track, _release), the metadata
\* being the fields album and shelf of f: nothing is done without an album
\* id; an exception of get_album_shelf propagates (there is no try block);
\* for a manual result the f-string reads ShelfConstants.MANUAL_SHELF_SUFFIX
\* before the tag is assigned.
set_shelf_in_metadata(h, f) ==
  IF ~Truthy(f.album) THEN FileOutcome(h, f, Returned(None, None), NoLog)
  ELSE LET out == mgr_get_album_shelf(h, f.album)
       IN  IF out.ret.exc # None THEN FileOutcome(out.h, f, out.ret, out.log)
           ELSE IF out.ret.shelf = None
                THEN FileOutcome(out.h, f, Returned(None, None), out.log)
           ELSE IF out.ret.source = SHELF_SOURCE_MANUAL
                THEN IF "MANUAL_SHELF_SUFFIX" \notin ShelfConstantsAttributes
                     THEN FileOutcome(out.h, f, Raised("AttributeError"),
                                      out.log)
                     ELSE FileOutcome(out.h,
                                      [f EXCEPT !.shelf = ManualTag(out.ret.shelf)],
                                      Returned(None, None), out.log)
           ELSE FileOutcome(out.h, [f EXCEPT !.shelf = out.ret.shelf],
                            Returned(None, None), out.log)

\* ------------------------------------- runs with metadata (SpecMetadata)
\* The metadata the host hands in: with or without an album id, with any
\* shelf tag.
Metadata ==
  {f \in Files : f.meta /\ f.path = None}

\* The host runs the track metadata processor on the metadata it loaded.
SetShelfInMetadata ==
  /\ called.op = "load"
  /\ LET out == set_shelf_in_metadata(Heap, file)
     IN  /\ _shelf_state' = out.h.st
         /\ _VOTES' = out.h.vl
         /\ _shelf_votes' = out.h.sv
         /\ _shelves_by_album' = out.h.sba
         /\ log_data' = out.h.ld
         /\ file' = out.file
         /\ ret' = out.ret
         /\ logged' = out.log
  /\ called' = Call("set_shelf_in_metadata", file.album, None)
  /\ UNCHANGED <<module, setting, singleton, callback, hist, tvars>>

NextMetadata ==
  \/ \E f \in Metadata : LoadFile(f)
  \/ SetShelfInMetadata
  \/ \E a \in Albums, s \in Shelves : VoteForShelf(a, s, 1)
  \/ \E a \in Albums, s \in Shelves, source \in Sources, lk \in {None, "False"} :
       SetAlbumShelf(a, s, source, lk)
  \/ \E a \in Albums : ClearManualOverride(a)
  \/ \E a \in Albums : ClearAlbum(a)

SpecMetadata == InitFiles /\ [][NextMetadata]_vars

\* What get_album_shelf returns (or raises) for the album of the file.
ResolvedForFile == mgr_get_album_shelf(Heap, file.album).ret

\* C32 - the track metadata processor writes the tag '<name>; manual'
\* exactly when get_album_shelf reports the source manual, writes the plain
\* shelf name for a result from votes or from the fallback, and leaves the
\* tag as it is when the metadata has no album id or the resolved shelf is
\* None.
C32_TagWritten ==
  [][called'.op = "set_shelf_in_metadata" =>
       IF ~Truthy(file.album) THEN file' = file
       ELSE /\ ResolvedForFile.exc = None => ret'.exc = None
            /\ ResolvedForFile.exc = None =>
                 file' = [file EXCEPT !.shelf =
                            IF ResolvedForFile.shelf = None THEN @
                            ELSE IF ResolvedForFile.source = SHELF_SOURCE_MANUAL
                                 THEN ManualTag(ResolvedForFile.shelf)
                                 ELSE ResolvedForFile.shelf]]_vars

\* ===================================== the script function $shelf() (script)
\* _resolve_shelf(context), the context being the file f: album is its
\* musicbrainz_albumid, shelf its shelf tag, and meta says whether the
\* context object has an attribute "metadata" (the host's Metadata, a dict
\* of the tests and a MagicMock differ in that).  The resolver of the
\* package is asked first; without a shelf the tag is read, as it is, from
\* context.metadata.  The settings are read after that: the enabled key,
\* and for a voted shelf of an enabled workflow both stage values.
_resolve_shelf(cfg, h, f) ==
  LET out == pkg_get_album_shelf(h, f.album)
      fallback == out.ret.shelf = None
      shelf == IF fallback THEN f.shelf ELSE out.ret.shelf
      shelf_source == IF fallback THEN SHELF_SOURCE_FALLBACK ELSE out.ret.source
  IN  IF fallback /\ ~f.meta THEN Raised("AttributeError")
      ELSE IF shelf = None /\ shelf_source = SHELF_SOURCE_FALLBACK
           THEN Raised("ShelfNotFoundException")
      ELSE IF "shelves_workflow_enabled" \notin cfg.keys THEN Raised("KeyError")
      ELSE IF ~cfg.enabled THEN Returned(shelf, None)
      ELSE IF shelf_source \in {SHELF_SOURCE_MANUAL, SHELF_SOURCE_FALLBACK}
           THEN Returned(shelf, None)
      ELSE IF ~({"shelves_workflow_stage_1", "shelves_workflow_stage_2"}
                  \subseteq cfg.keys)
           THEN Raised("KeyError")
      ELSE IF \/ shelf = cfg.workflow_stage_1
              \/ cfg.workflow_stage_1 = "*"
           THEN Returned(cfg.workflow_stage_2, None)
           ELSE Returned(shelf, None)

\* func_shelf(parser): None without an album id in the context.
func_shelf(cfg, h, f) ==
  IF f.album # None THEN _resolve_shelf(cfg, h, f) ELSE Returned(None, None)

\* ------------------------------------ runs of the function (SpecScript)
\* config.setting for the function: no workflow keys, a disabled workflow,
\* and an enabled one with a stage-1 shelf or with the wildcard.
ScriptSettings ==
  {[keys |-> {}, enabled |-> FALSE, workflow_stage_1 |-> "Incoming",
    workflow_stage_2 |-> "Standard"]} \cup
  [keys : {{"shelves_workflow_enabled", "shelves_workflow_stage_1",
            "shelves_workflow_stage_2"}},
   enabled : BOOLEAN, workflow_stage_1 : {"Incoming", "*"},
   workflow_stage_2 : {"Standard"}]

\* The contexts the host evaluates the function in.
Contexts ==
  [meta : BOOLEAN, album : Albums \cup {None}, shelf : TagValues,
   path : {None}, explicit : {FALSE}]

InitScript ==
  /\ module = "pkg"
  /\ _shelf_state = EmptyDict
  /\ _VOTES = EmptyDict
  /\ _shelf_votes = EmptyDict
  /\ _shelves_by_album = EmptyDict
  /\ log_data = NoLog
  /\ called = Call("init", None, None)
  /\ ret = Returned(None, None)
  /\ logged = NoLog
  /\ hist = [a \in Albums |-> NoHist]
  /\ _lock = None
  /\ pc = [t \in Threads |-> "idle"]
  /\ frame = [t \in Threads |-> NoFrame]
  /\ done = [t \in Threads |-> <<>>]
  /\ file \in Contexts
  /\ setting \in ScriptSettings
  /\ singleton = NoSingleton
  /\ callback = NoCallback

\* The host evaluates $shelf() in the context.
FuncShelf ==
  /\ ret' = func_shelf(setting, Heap, file)
  /\ called' = Call("func_shelf", file.album, None)
  /\ logged' = NoLog
  /\ UNCHANGED <<module, host, data, hist, tvars>>

NextScript ==
  \/ FuncShelf
  \/ \E a \in Albums, s \in Shelves : VoteForShelf(a, s, 1)
  \/ \E a \in Albums, s \in Shelves : SetAlbumShelf(a, s, SHELF_SOURCE_MANUAL, None)
  \/ \E a \in Albums : ClearAlbum(a)

SpecScript == InitScript /\ [][NextScript]_vars

\* C33 - every value $shelf() returns is a clean shelf name, without the
\* provenance suffix '; manual'; on the fallback that reads the shelf tag of
\* the context, it is the shelf that the tag names.
C33_CleanName ==
  (called.op = "func_shelf" /\ ret.exc = None /\ ret.shelf # None) =>
    /\ ManualShelfOf(ret.shelf) = None
    /\ (/\ pkg_get_album_shelf(Heap, file.album).ret.shelf = None
        /\ ManualShelfOf(file.shelf) # None) =>
          ret.shelf = ManualShelfOf(file.shelf)

\* ============================================ the singleton of manager.py
\* An instance is a position in singleton.objects, NoInstance standing for
\* None; singleton._instance is the class attribute, singleton.handle the
\* callers' references.  An object holds _initialized (hasattr(self,
\* "_initialized")), attrs (the attributes __init__ assigns after that one
\* exist), _test_value and h, its per-album maps and log_data.
MaxInstances == 3
EmptyHeap == [st |-> EmptyDict, vl |-> EmptyDict, sv |-> EmptyDict,
              sba |-> EmptyDict, ld |-> NamedTupleClass]
\* super().__new__(cls): an object without attributes.
NewObject == [_initialized |-> FALSE, attrs |-> FALSE, _test_value |-> None,
              h |-> EmptyHeap]
\* The attributes after the body of __init__.
InitialObject == [_initialized |-> TRUE, attrs |-> TRUE, _test_value |-> None,
                  h |-> EmptyHeap]

\* __new__(cls): make an object only when the class has none.
__new__(sg) ==
  IF sg._instance = NoInstance
  THEN [sg EXCEPT !.objects = Append(@, NewObject),
                  !._instance = Len(sg.objects) + 1]
  ELSE sg

\* An __init__ without the hasattr test: the body runs on every call.
__init___every_time(obj) == InitialObject

\* __init__(self): the body runs once per object.
__init__(obj) == IF ~obj._initialized THEN InitialObject ELSE obj

\* ShelfManager(): __new__, then __init__ on what it returned.
ShelfManager(sg) ==
  LET sg1 == __new__(sg)
      self == sg1._instance
  IN  [sg1 EXCEPT !.objects[self] = __init__(@)]

\* destroy(cls): cls._instance = None; the object stays with its holders.
destroy(sg) == [sg EXCEPT !._instance = NoInstance]

\* A classmethod of the resolver on the singleton: it works on
\* cls._instance, whatever reference it is called through; on None (and on
\* an object without the attribute) the attribute access raises.
OnInstance(sg, call(_)) ==
  IF sg._instance = NoInstance THEN [sg |-> sg, ret |-> Raised("AttributeError")]
  ELSE IF ~sg.objects[sg._instance].attrs
       THEN [sg |-> sg, ret |-> Raised("AttributeError")]
  ELSE LET out == call(sg.objects[sg._instance].h)
       IN  [sg |-> [sg EXCEPT !.objects[sg._instance].h = out.h],
            ret |-> out.ret]

\* --------------------------- sequential constructions (SpecSingleton)
Handles == {"a", "b"}
TestValues == {"foobar"}

InitSingleton ==
  /\ module = "mgr"
  /\ _shelf_state = EmptyDict
  /\ _VOTES = EmptyDict
  /\ _shelf_votes = EmptyDict
  /\ _shelves_by_album = EmptyDict
  /\ log_data = NamedTupleClass
  /\ called = [op |-> "init", handle |-> None]
  /\ ret = Returned(None, None)
  /\ logged = NoLog
  /\ hist = [a \in Albums |-> NoHist]
  /\ _lock = None
  /\ pc = [t \in Threads |-> "idle"]
  /\ frame = [t \in Threads |-> NoFrame]
  /\ done = [t \in Threads |-> <<>>]
  /\ file = NoFile
  /\ setting = NoSetting
  /\ singleton = [_instance |-> NoInstance, objects |-> <<>>,
                  handle |-> [x \in Handles |-> NoInstance]]
  /\ callback = NoCallback

\* x = ShelfManager()
Construct(x) ==
  /\ singleton._instance # NoInstance \/ Len(singleton.objects) < MaxInstances
  /\ LET sg == ShelfManager(singleton)
     IN  singleton' = [sg EXCEPT !.handle[x] = sg._instance]
  /\ called' = [op |-> "ShelfManager", handle |-> x]
  /\ ret' = Returned(None, None)
  /\ UNCHANGED <<module, file, setting, callback, data, logged, hist, tvars>>

\* ShelfManager.destroy()
Destroy ==
  /\ singleton' = destroy(singleton)
  /\ called' = [op |-> "destroy", handle |-> None]
  /\ ret' = Returned(None, None)
  /\ UNCHANGED <<module, file, setting, callback, data, logged, hist, tvars>>

\* x.test_value = v
SetTestValue(x, v) ==
  /\ singleton.handle[x] # NoInstance
  /\ singleton' = [singleton EXCEPT !.objects[singleton.handle[x]]._test_value = v]
  /\ called' = [op |-> "test_value", handle |-> x]
  /\ ret' = Returned(None, None)
  /\ UNCHANGED <<module, file, setting, callback, data, logged, hist, tvars>>

\* x.set_album_shelf(a, s, source="votes")
SetAlbumShelfThrough(x, a, s) ==
  /\ singleton.handle[x] # NoInstance
  /\ LET out == OnInstance(singleton,
                  LAMBDA h : mgr_set_album_shelf(h, a, s, SHELF_SOURCE_VOTES, None))
     IN  /\ singleton' = out.sg
         /\ ret' = out.ret
  /\ called' = [op |-> "set_album_shelf", handle |-> x]
  /\ UNCHANGED <<module, file, setting, callback, data, logged, hist, tvars>>

NextSingleton ==
  \/ \E x \in Handles : Construct(x)
  \/ Destroy
  \/ \E x \in Handles, v \in TestValues : SetTestValue(x, v)
  \/ \E x \in Handles, a \in Albums, s \in Shelves : SetAlbumShelfThrough(x, a, s)

SpecSingleton == InitSingleton /\ [][NextSingleton]_vars

\* C34 - singleton lifecycle: while an instance exists, a construction
\* yields that instance and leaves every object as it is (what was written
\* through one reference is read through the other, the per-album maps are
\* not initialised again); after destroy() the next construction yields an
\* object that did not exist before, in the state __init__ gives it, and
\* that becomes the instance.
C34_SingletonLifecycle ==
  [][called'.op = "ShelfManager" =>
       LET x == called'.handle
           made == singleton'.handle[x]
       IN  /\ made = singleton'._instance
           /\ \A y \in Handles \ {x} :
                singleton'.handle[y] = singleton.handle[y]
           /\ IF singleton._instance # NoInstance
              THEN /\ made = singleton._instance
                   /\ singleton'.objects = singleton.objects
              ELSE /\ made = Len(singleton.objects) + 1
                   /\ singleton'.objects =
                        Append(singleton.objects, InitialObject)]_vars

\* Two constructions after a destroy(): both references name the second
\* object, which holds the value written to it, as the first holds its own.
C34_Witness ==
  /\ called.op = "ShelfManager"
  /\ Len(singleton.objects) = 2
  /\ singleton._instance = 2
  /\ singleton.handle = [x \in Handles |-> 2]
  /\ singleton.objects[1]._test_value = "foobar"
  /\ singleton.objects[2]._test_value = "foobar"
  /\ singleton.objects[2].h.st # EmptyDict

\* C35 - manual precedence under concurrency: when one thread's
\* set_album_shelf(a, x, source = votes) and the other's set_album_shelf(a,
\* m, source = manual), which locks, have run concurrently and both have
\* returned, the entry of a is locked with shelf m and source manual.
C35_ManualPrecedenceConcurrent ==
  \A a \in Albums, t \in Threads, u \in Threads :
    (/\ AllIdle
     /\ Len(done[t]) = 1 /\ Len(done[u]) = 1
     /\ done[t][1].op = "set_album_shelf" /\ done[t][1].album = a
     /\ done[t][1].source = SHELF_SOURCE_MANUAL
     /\ done[u][1].op = "set_album_shelf" /\ done[u][1].album = a
     /\ done[u][1].source = SHELF_SOURCE_VOTES) =>
      /\ a \in DOMAIN _shelf_state
      /\ _shelf_state[a] = [shelf |-> done[t][1].shelf,
                            source |-> SHELF_SOURCE_MANUAL, locked |-> TRUE]

\* ===================================== the action "Determine shelf" (action)
\* DetermineShelfAction.callback(objs) works on the resolver of the package.
\* An object is the sequence of the files its iterfiles() yields (the empty
\* sequence for an object without files); callback.files gives each file its
\* album id and the shelf get_shelf_from_path finds for its filename,
\* callback.tag its shelf tag.  The three loops of the callback are walked
\* one file or one album at a time: phase says which loop runs, k is the
\* position in the files of all objects, cleared the albums the second loop
\* has passed, and events the calls made so far, in order.
MaxObjs == 2
FileIds == {"F1", "F2"}
RECURSIVE FilesOf(_)
\* The files of the objects, in the order the loops visit them.
FilesOf(objs) == IF objs = <<>> THEN <<>> ELSE Head(objs) \o FilesOf(Tail(objs))
Event(kind, f, a) == [kind |-> kind, file |-> f, album |-> a]

\* The end of a loop: the next loop that has something to do, or the end of
\* the callback.
EndOfLoop(cb) ==
  LET n == Len(FilesOf(cb.objs))
      c1 == IF cb.phase = "determine" /\ cb.k > n
            THEN [cb EXCEPT !.phase = "clear"] ELSE cb
      c2 == IF c1.phase = "clear" /\ c1.album_ids_to_reinitialize \subseteq c1.cleared
            THEN [c1 EXCEPT !.phase = "revote", !.k = 1] ELSE c1
  IN  IF c2.phase = "revote" /\ c2.k > n THEN [c2 EXCEPT !.phase = "done"] ELSE c2

\* _determine_shelf_recursive, one file: the tag becomes the shelf of the
\* path, the album id (if any) is noted.
DetermineFile(cb) ==
  LET f == FilesOf(cb.objs)[cb.k]
      album_id == cb.files[f].album
  IN  EndOfLoop([cb EXCEPT
        !.tag[f] = cb.files[f].path,
        !.album_ids_to_reinitialize =
           IF Truthy(album_id) THEN @ \cup {album_id} ELSE @,
        !.events = Append(@, Event("tag", f, album_id)),
        !.k = @ + 1])

\* for album_id in album_ids_to_reinitialize: clear_album(album_id)
ClearOne(cb, h, a) ==
  [cb |-> EndOfLoop([cb EXCEPT !.cleared = @ \cup {a},
                               !.events = Append(@, Event("clear", None, a))]),
   out |-> pkg_clear_album(h, a)]

\* _revote_shelf_recursive, one file: a vote of the default weight for the
\* tag, when the file has a tag and an album id.
RevoteFile(cb, h) ==
  LET f == FilesOf(cb.objs)[cb.k]
      shelf_name == cb.tag[f]
      album_id == cb.files[f].album
      votes == Truthy(shelf_name) /\ Truthy(album_id)
  IN  [cb |-> EndOfLoop([cb EXCEPT
                 !.events = IF votes THEN Append(@, Event("vote", f, album_id))
                            ELSE @,
                 !.k = @ + 1]),
       out |-> IF votes THEN pkg_vote_for_shelf(h, album_id, shelf_name, 1, "")
               ELSE Outcome(h, Returned(None, None), NoLog)]

\* ---------------------------------------- runs of the action (SpecAction)
\* The objects the user may select: a file, another file, an album holding
\* both, and an object without files.
Objects == {<<"F1">>, <<"F2">>, <<"F1", "F2">>, <<>>}
\* The selections of up to n objects: no object is selected twice.
SelectionsOf(n) ==
  {objs \in UNION {[1..m -> Objects] : m \in 1..n} :
     \A i \in 1..Len(objs), j \in 1..Len(objs) : objs[i] = objs[j] => i = j}
FileSets ==
  [FileIds -> [album : Albums2 \cup {None}, path : Shelves]]

\* The user picks the action for the selected objects.
Callback(objs, files) ==
  /\ callback.phase = "none"
  /\ callback' = EndOfLoop([NoCallback EXCEPT
                   !.phase = "determine", !.objs = objs, !.files = files,
                   !.k = 1, !.tag = [f \in FileIds |-> ManualTag("Incoming")]])
  /\ called' = Call("callback", None, None)
  /\ ret' = Returned(None, None)
  /\ logged' = NoLog
  /\ UNCHANGED <<module, file, setting, singleton, data, hist, tvars>>

CallbackDetermine ==
  /\ callback.phase = "determine"
  /\ callback' = DetermineFile(callback)
  /\ UNCHANGED <<module, file, setting, singleton, data, seqvars, tvars>>

CallbackClear(a) ==
  /\ callback.phase = "clear"
  /\ a \in callback.album_ids_to_reinitialize \ callback.cleared
  /\ LET r == ClearOne(callback, Heap, a)
     IN  /\ callback' = r.cb
         /\ SetHeap(r.out.h)
         /\ logged' = r.out.log
  /\ UNCHANGED <<module, file, setting, singleton, called, ret, hist, tvars>>

CallbackRevote ==
  /\ callback.phase = "revote"
  /\ LET r == RevoteFile(callback, Heap)
     IN  /\ callback' = r.cb
         /\ SetHeap(r.out.h)
         /\ logged' = r.out.log
  /\ UNCHANGED <<module, file, setting, singleton, called, ret, hist, tvars>>

NextAction ==
  \/ \E objs \in SelectionsOf(MaxObjs), files \in FileSets : Callback(objs, files)
  \/ CallbackDetermine
  \/ \E a \in Albums2 : CallbackClear(a)
  \/ CallbackRevote
  \/ /\ callback.phase = "none"
     /\ \E a \in Albums, s \in Shelves : VoteForShelf(a, s, 1)
  \/ /\ callback.phase = "none"
     /\ \E a \in Albums, s \in Shelves :
          SetAlbumShelf(a, s, SHELF_SOURCE_MANUAL, None)

\* The resolver of the package, before any call.
InitAction == Init /\ module = "pkg"

SpecAction == InitAction /\ [][NextAction]_vars

\* The selected files, and those of album a that lie in shelf s.
SelectedFiles == {FilesOf(callback.objs)[i] : i \in 1..Len(FilesOf(callback.objs))}
SelectedIn(a, s) ==
  {f \in SelectedFiles : callback.files[f].album = a /\ callback.files[f].path = s}
\* The vote records of album a that name shelf s.
RecordsOf(a, s) ==
  LET votes == Get(_VOTES, a, <<>>)
  IN  Cardinality({i \in 1..Len(votes) : votes[i][1] = s})

\* C36 - the callback clears before it re-votes: every clear_album comes
\* after every re-tagging and before every re-vote, and when the callback
\* has ended, each affected album holds exactly one vote record and one
\* count per selected file of that album, for the shelf of that file's
\* path, and no state entry from before the action.
C36_ClearBeforeRevote ==
  /\ \A i \in 1..Len(callback.events), j \in 1..Len(callback.events) :
       /\ (callback.events[i].kind = "tag" /\ callback.events[j].kind = "clear")
            => i < j
       /\ (callback.events[i].kind = "clear" /\ callback.events[j].kind = "vote")
            => i < j
  /\ callback.phase = "done" =>
       \A a \in callback.album_ids_to_reinitialize :
         /\ a \notin DOMAIN _shelf_state
         /\ \A s \in Shelves :
              /\ RecordsOf(a, s) = Cardinality(SelectedIn(a, s))
              /\ ValueOf(Get(_shelf_votes, a, NewCounter).items, s)
                   = Cardinality(SelectedIn(a, s))

\* ============================== the processors after save and after removal
\* file_post_save_processor(file): clear_album for the album id of the file,
\* if it has one; the except clause is the one of the per-file processor.
file_post_save_processor(h, f) ==
  IF ~Truthy(f.album) THEN FileOutcome(h, f, Returned(None, None), NoLog)
  ELSE LET out == mgr_clear_album(h, f.album)
       IN  IF out.ret.exc # None THEN FileRaised(out.h, f, out.ret.exc)
           ELSE FileOutcome(out.h, f, Returned(None, None), out.log)

\* file_post_removal_from_track_processor(_track, file): the same call,
\* without a try block.
file_post_removal_from_track_processor(h, f) ==
  IF ~Truthy(f.album) THEN FileOutcome(h, f, Returned(None, None), NoLog)
  ELSE LET out == mgr_clear_album(h, f.album)
       IN  FileOutcome(out.h, f, out.ret, out.log)

\* ------------------------------- runs with saves and removals (SpecSave)
\* The host runs a processor on the file it holds; the album's history of
\* calls starts again, as after clear_album.
RunOnFile(op, out) ==
  /\ _shelf_state' = out.h.st
  /\ _VOTES' = out.h.vl
  /\ _shelf_votes' = out.h.sv
  /\ _shelves_by_album' = out.h.sba
  /\ log_data' = out.h.ld
  /\ file' = out.file
  /\ ret' = out.ret
  /\ logged' = out.log
  /\ called' = Call(op, file.album, None)
  /\ hist' = IF Truthy(file.album) THEN [hist EXCEPT ![file.album] = NoHist]
             ELSE hist
  /\ UNCHANGED <<module, setting, singleton, callback, tvars>>

FilePostSave ==
  RunOnFile("file_post_save_processor", file_post_save_processor(Heap, file))

FilePostRemovalFromTrack ==
  RunOnFile("file_post_removal_from_track_processor",
            file_post_removal_from_track_processor(Heap, file))

\* The processors read the album id of the file and nothing else of it.
SavedFiles == {f \in Files : f.path = None /\ f.shelf = ""}

NextSave ==
  \/ \E f \in SavedFiles : LoadFile(f)
  \/ FilePostSave
  \/ FilePostRemovalFromTrack
  \/ \E a \in Albums, s \in Shelves : VoteForShelf(a, s, 1)
  \/ \E a \in Albums, s \in Shelves, source \in Sources :
       SetAlbumShelf(a, s, source, None)
  \/ \E a \in Albums : GetAlbumShelf(a)

SpecSave == InitFiles /\ [][NextSave]_vars

C38_FallbackIffRecords ==
  module = "pkg" =>
    /\ \A a \in Albums :
         a \in DOMAIN _shelves_by_album <=> Len(Get(_VOTES, a, <<>>)) >= 1
    /\ (called.op = "get_album_shelf" /\ ret.source = SHELF_SOURCE_FALLBACK)
         => ret.shelf = None

\* C38 witness: the package has answered (None, fallback) for an album that
\* has a state entry, written by a set that was not manual, and no votes.
C38_Witness ==
  \E a \in Albums :
    /\ module = "pkg"
    /\ called = Call("get_album_shelf", a, None)
    /\ ret = Returned(None, SHELF_SOURCE_FALLBACK)
    /\ a \in DOMAIN _shelf_state
    /\ Truthy(_shelf_state[a].shelf)
    /\ a \notin DOMAIN _shelves_by_album
    /\ a \notin DOMAIN _VOTES


\* ============================ two threads constructing ShelfManager()
\* manager.py takes no lock in __new__ and __init__ (the class attribute
\* _lock is used by vote_for_shelf and get_album_shelf only), so a thread
\* can be suspended between any two of: the test "cls._instance is None",
\* the assignment of the new object, the read of cls._instance for the
\* return, the hasattr test, the assignment of _initialized and the
\* assignments of the other attributes.  frame[t] holds the thread's local
\* self; singleton.handle[t] what its call returned; singleton.bodies how
\* often the body of __init__ has run on each object; done[t] the sets the
\* thread has made through its reference.
NoLocal == [self |-> NoInstance]

InitConstruct ==
  /\ module = "mgr"
  /\ _shelf_state = EmptyDict
  /\ _VOTES = EmptyDict
  /\ _shelf_votes = EmptyDict
  /\ _shelves_by_album = EmptyDict
  /\ log_data = NamedTupleClass
  /\ called = [op |-> "init", handle |-> None]
  /\ ret = Returned(None, None)
  /\ logged = NoLog
  /\ hist = [a \in Albums |-> NoHist]
  /\ _lock = None
  /\ pc = [t \in Threads |-> "idle"]
  /\ frame = [t \in Threads |-> NoLocal]
  /\ done = [t \in Threads |-> <<>>]
  /\ file = NoFile
  /\ setting = NoSetting
  /\ singleton = [_instance |-> NoInstance, objects |-> <<>>,
                  handle |-> [t \in Threads |-> NoInstance],
                  bodies |-> <<>>]
  /\ callback = NoCallback

\* __new__, line 26: if cls._instance is None
TNewTest(t) ==
  /\ pc[t] = "idle"
  /\ pc' = [pc EXCEPT ![t] = IF singleton._instance = NoInstance
                             THEN "new_make" ELSE "new_return"]
  /\ called' = [op |-> "__new__", handle |-> t]
  /\ UNCHANGED <<module, file, setting, singleton, callback, data, ret,
                 logged, hist, _lock, frame, done>>

\* __new__, line 27: cls._instance = super().__new__(cls)
TNewMake(t) ==
  /\ pc[t] = "new_make"
  /\ Len(singleton.objects) < MaxInstances
  /\ singleton' = [singleton EXCEPT !.objects = Append(@, NewObject),
                                    !.bodies = Append(@, 0),
                                    !._instance = Len(singleton.objects) + 1]
  /\ pc' = [pc EXCEPT ![t] = "new_return"]
  /\ called' = [op |-> "__new__", handle |-> t]
  /\ UNCHANGED <<module, file, setting, callback, data, ret, logged, hist,
                 _lock, frame, done>>

\* __new__, line 28: return cls._instance, read again
TNewReturn(t) ==
  /\ pc[t] = "new_return"
  /\ frame' = [frame EXCEPT ![t] = [self |-> singleton._instance]]
  /\ pc' = [pc EXCEPT ![t] = "init_test"]
  /\ called' = [op |-> "__new__", handle |-> t]
  /\ UNCHANGED <<module, file, setting, singleton, callback, data, ret,
                 logged, hist, _lock, done>>

\* __init__, line 31: if not hasattr(self, "_initialized"); when the
\* attribute is there the call ShelfManager() returns self.
TInitTest(t) ==
  /\ pc[t] = "init_test"
  /\ IF ~singleton.objects[frame[t].self]._initialized
     THEN /\ pc' = [pc EXCEPT ![t] = "init_mark"]
          /\ UNCHANGED singleton
     ELSE /\ pc' = [pc EXCEPT ![t] = "constructed"]
          /\ singleton' = [singleton EXCEPT !.handle[t] = frame[t].self]
  /\ called' = [op |-> "__init__", handle |-> t]
  /\ UNCHANGED <<module, file, setting, callback, data, ret, logged, hist,
                 _lock, frame, done>>

\* __init__, line 32: self._initialized = True
TInitMark(t) ==
  /\ pc[t] = "init_mark"
  /\ singleton' = [singleton EXCEPT !.objects[frame[t].self]._initialized = TRUE]
  /\ pc' = [pc EXCEPT ![t] = "init_body"]
  /\ called' = [op |-> "__init__", handle |-> t]
  /\ UNCHANGED <<module, file, setting, callback, data, ret, logged, hist,
                 _lock, frame, done>>

\* __init__, lines 33-48: _test_value, log_data and the maps are assigned
\* anew; the call ShelfManager() returns self.
TInitBody(t) ==
  /\ pc[t] = "init_body"
  /\ singleton' = [singleton EXCEPT !.objects[frame[t].self] = InitialObject,
                                    !.bodies[frame[t].self] = @ + 1,
                                    !.handle[t] = frame[t].self]
  /\ pc' = [pc EXCEPT ![t] = "constructed"]
  /\ called' = [op |-> "__init__", handle |-> t]
  /\ UNCHANGED <<module, file, setting, callback, data, ret, logged, hist,
                 _lock, frame, done>>

\* x.set_album_shelf(a, s, source=...) through the reference the thread
\* obtained, once per thread.
TSetThrough(t, a, s, source) ==
  /\ pc[t] = "constructed"
  /\ done[t] = <<>>
  /\ LET out == OnInstance(singleton,
                  LAMBDA h : mgr_set_album_shelf(h, a, s, source, None))
     IN  /\ singleton' = out.sg
         /\ ret' = out.ret
         /\ done' = [done EXCEPT ![t] =
                       <<[album |-> a, shelf |-> s, exc |-> out.ret.exc]>>]
  /\ called' = [op |-> "set_album_shelf", handle |-> t]
  /\ UNCHANGED <<module, file, setting, callback, data, logged, hist, _lock,
                 pc, frame>>

NextConstruct ==
  \E t \in Threads :
    \/ TNewTest(t)
    \/ TNewMake(t)
    \/ TNewReturn(t)
    \/ TInitTest(t)
    \/ TInitMark(t)
    \/ TInitBody(t)
    \/ \E a \in Albums2, s \in Shelves,
          source \in {SHELF_SOURCE_VOTES, SHELF_SOURCE_MANUAL} :
         TSetThrough(t, a, s, source)

SpecConstruct == InitConstruct /\ [][NextConstruct]_vars

BothConstructed == \A t \in Threads : pc[t] = "constructed"

\* The album of a set that returned is known to the instance the
\* classmethods work on, whichever reference they are called through.
VisibleSets ==
  \A t \in Threads : \A i \in DOMAIN done[t] :
    done[t][i].exc = None =>
      /\ singleton._instance # NoInstance
      /\ done[t][i].album \in DOMAIN singleton.objects[singleton._instance].h.st

\* C39 - two threads construct ShelfManager() while no instance exists:
\* once both calls have returned, both hold the same instance, the body of
\* __init__ has run exactly once on it, and every set that a thread made
\* through its reference and that returned is known to the instance.
C39_ConcurrentConstruction ==
  BothConstructed =>
    /\ \A t, u \in Threads : singleton.handle[t] = singleton.handle[u]
    /\ Len(singleton.objects) = 1
    /\ singleton.bodies = <<1>>
    /\ VisibleSets
====
